---------------------------- MODULE Spec2Model ----------------------------
(***************************************************************************)
(* A model of the statistical kernel of pcigale's psum analysis            *)
(* (src/pcigale/stats/psum.py): compute_chi2, adjust_errors, w_mean_sigma, *)
(* bin_evenly and the grid evaluation Module.process, and of gen_pdf and   *)
(* save_pdf of src/pcigale/analysis_modules/pdf_analysis/utils.py.         *)
(* The last part models Counter of src/utils/counter.py, whose inc() is    *)
(* called by several processes.                                            *)
(*                                                                         *)
(* Numbers.  A float is modelled by a record [k, n, d]:                    *)
(*   k = "fin"  : the rational n/d, d > 0, in lowest terms                 *)
(*   k = "nan"  : IEEE NaN                                                 *)
(*   k = "inf"  : IEEE infinity of sign n (1 or -1)                        *)
(*   k = "exp"  : the float exp(-(n/d)/2), with 0 < n/d below the point    *)
(*                where binary64 underflows to 0, so a value in (0, 1)     *)
(*   k = "sqrt" : the float sqrt(n/d) for n/d > 0 not a rational square    *)
(*   k = "big"  : the float (n/d) * 2^60, n/d # 0 not far from 1: a        *)
(*                magnitude at which x + 1 rounds back to x in binary64    *)
(*   k = "pos", "nn", "real" : a finite float that is only known to be     *)
(*                positive, not negative, or finite: what is left of an    *)
(*                operation on "exp" or "sqrt" values                      *)
(* Quantities are expressed in units of TOLERANCE, so that values below,   *)
(* equal to and above the threshold are all integers.                      *)
(***************************************************************************)
EXTENDS Integers, Sequences, FiniteSets, TLC

VARIABLES
    fn,             \* the function that is called
    pc,             \* "call" before the call, "done" after it
    model_fluxes,   \* compute_chi2's first argument
    obs_fluxes,     \* compute_chi2's second argument, adjust_errors' flux
    obs_errors,     \* compute_chi2's third argument, adjust_errors' error
    values,         \* w_mean_sigma's and bin_evenly's first argument
    weights,        \* w_mean_sigma's second argument
    max_bins,       \* bin_evenly's second argument
    ret,            \* the outcome of the call: a return value or an exception
    sed_modules_params,  \* Module.process: the grid of models
    save_pdf,            \* Module.process: save_pdf or plot_pdf is set
    pdf_max_bin_number,  \* Module.process: the parameter of that name
    obs_table,           \* Module.process: the rows of the observation table
    comp_table,          \* Module.process: [model][observation][column]
    model_index,         \* Module.process: position of the loop on the models
    obs_index,           \* Module.process: position of a loop on the rows
    results,             \* Module.process: per variable, a (mean, sigma) per row
    best_indices,        \* Module.process: best_index of the rows seen so far
    pdf_tables,          \* Module.process: the PDFs of the rows seen so far
    model_variables,     \* save_pdf: [model][variable], the analysed values
    likelihood,          \* save_pdf: the likelihood of each model
    var_index,           \* save_pdf: position of the loop on the variables
    pdf_prob,            \* save_pdf: what gen_pdf returned last
    reports,             \* save_pdf: the variables reported as without PDF
    files,               \* save_pdf: the variables whose PDF file is written
    nmodels,             \* Counter: self.nmodels
    freq_inc,            \* Counter: self.freq_inc
    freq_print,          \* Counter: self.freq_print
    global_counter,      \* Counter: self.global_counter.value, shared
    lock_owner,          \* Counter: the process holding get_lock(), or 0
    proc_counter,        \* Counter: self.proc_counter of each process
    at,                  \* Counter: where each process is in inc()
    loaded,              \* Counter: the value read by += in each process
    n_local,             \* Counter: the local n of inc() in each process
    calls,               \* Counter: the calls of inc() each process has left
    printed              \* Counter: the values passed to pprint, in order

kernelArgs == <<model_fluxes, obs_fluxes, obs_errors>>

statArgs == <<values, weights, max_bins>>

gridArgs == <<sed_modules_params, save_pdf, pdf_max_bin_number>>

gridState == <<obs_table, comp_table, model_index, obs_index, results,
               best_indices, pdf_tables>>

kdeState == <<model_variables, likelihood, var_index, pdf_prob, reports,
              files>>

counterArgs == <<nmodels, freq_inc, freq_print>>

counterState == <<global_counter, lock_owner, proc_counter, at, loaded,
                  n_local, calls, printed>>

vars == <<fn, pc, kernelArgs, statArgs, ret, gridArgs, gridState, kdeState,
          counterArgs, counterState>>

---------------------------------------------------------------------------
(* Bounds of the model *)

\* Longest flux / error sequence (number of filters) that is enumerated.
MaxLen == 3

\* Longest value / weight sequence that is enumerated.
MaxValues == 3

\* Largest number of bins that is asked for.
MaxBins == 4

\* Largest number of models in the grid of Module.process.
MaxModels == 2

\* Largest number of rows in the observation table of Module.process.
MaxObs == 2

\* Largest number of models whose values are handed to save_pdf.
MaxPdfModels == 2

\* The processes that share a Counter.
MaxProcs == 2

\* The calls of inc() that one process makes.
MaxCalls == 2

\* The largest freq_inc.
MaxFreqInc == 2

---------------------------------------------------------------------------
(* Float arithmetic *)

Abs(x) == IF x < 0 THEN -x ELSE x

RECURSIVE GCD(_, _)
GCD(a, b) == IF b = 0 THEN a ELSE GCD(b, a % b)

Fin(n, d) ==
    LET s == IF d < 0 THEN -1 ELSE 1
        g == GCD(Abs(n), Abs(d))
    IN  [k |-> "fin", n |-> (s * n) \div g, d |-> (s * d) \div g]

Num(i) == [k |-> "fin", n |-> i, d |-> 1]

NaN == [k |-> "nan", n |-> 0, d |-> 1]

Inf(sign) == [k |-> "inf", n |-> sign, d |-> 1]

IsFin(x) == x.k = "fin"

Sign(x) == IF x.n > 0 THEN 1 ELSE IF x.n < 0 THEN -1 ELSE 0

\* What is known of the sign of a finite float.
SignClass(x) ==
    CASE x.k \in {"fin", "big"} ->
            IF x.n > 0 THEN "pos" ELSE IF x.n < 0 THEN "neg" ELSE "zero"
      [] x.k \in {"exp", "sqrt", "pos"} -> "pos"
      [] x.k = "nn" -> "nn"
      [] x.k = "real" -> "real"

\* The float of which only the sign class is known.
Known(c) ==
    CASE c = "zero" -> Num(0)
      [] c = "pos" -> [k |-> "pos", n |-> 1, d |-> 1]
      [] c = "nn" -> [k |-> "nn", n |-> 1, d |-> 1]
      [] OTHER -> [k |-> "real", n |-> 1, d |-> 1]

IsFinite(x) == x.k \notin {"nan", "inf"}

SumClass(a, b) ==
    CASE a = "zero" -> b
      [] b = "zero" -> a
      [] a = "pos" /\ b \in {"pos", "nn"} -> "pos"
      [] a = "nn" /\ b = "pos" -> "pos"
      [] a = "nn" /\ b = "nn" -> "nn"
      [] a = "neg" /\ b = "neg" -> "neg"
      [] OTHER -> "real"

ProductClass(a, b) ==
    CASE a = "zero" \/ b = "zero" -> "zero"
      [] a = b /\ a \in {"pos", "neg"} -> "pos"
      [] {a, b} = {"pos", "neg"} -> "neg"
      [] {a, b} \subseteq {"pos", "nn"} -> "nn"
      [] OTHER -> "real"

\* The class of a quotient by a float that is known not to be zero.
QuotientClass(a, b) ==
    CASE a = "zero" -> "zero"
      [] a = b -> "pos"
      [] {a, b} = {"pos", "neg"} -> "neg"
      [] a = "nn" /\ b = "pos" -> "nn"
      [] OTHER -> "real"

\* A number of kind "big" from the rational n/d; zero stays an exact zero.
Big(n, d) == IF n = 0 THEN Num(0) ELSE [Fin(n, d) EXCEPT !.k = "big"]

\* x < y on floats: every comparison with a NaN is false.
Lt(x, y) ==
    CASE x.k = "nan" \/ y.k = "nan" -> FALSE
      [] x.k = "fin" /\ y.k = "fin" -> x.n * y.d < y.n * x.d
      [] x.k = "big" /\ y.k = "big" -> x.n * y.d < y.n * x.d
      [] x.k = "big" /\ y.k = "fin" -> x.n < 0
      [] x.k = "fin" /\ y.k = "big" -> y.n > 0
      [] x.k = "inf" /\ y.k = "inf" -> x.n < y.n
      [] x.k = "inf" /\ y.k \in {"fin", "big"} -> x.n < 0
      [] x.k \in {"fin", "big"} /\ y.k = "inf" -> y.n > 0

Gt(x, y) == Lt(y, x)

Le(x, y) == x.k # "nan" /\ y.k # "nan" /\ ~Lt(y, x)

Neg(x) ==
    CASE x.k = "fin" -> Fin(-x.n, x.d)
      [] x.k = "big" -> Big(-x.n, x.d)
      [] x.k = "inf" -> Inf(-x.n)
      [] x.k = "nan" -> NaN
      [] OTHER -> Known(ProductClass("neg", SignClass(x)))

\* The sum of the rationals x.n/x.d and y.n/y.d
RatSum(x, y) ==
    LET g == GCD(x.d, y.d)
    IN  Fin(x.n * (y.d \div g) + y.n * (x.d \div g), (x.d \div g) * y.d)

\* The product of the rationals x.n/x.d and y.n/y.d
RatProduct(x, y) ==
    LET g1 == GCD(Abs(x.n), y.d)
        g2 == GCD(Abs(y.n), x.d)
    IN  Fin((x.n \div g1) * (y.n \div g2), (x.d \div g2) * (y.d \div g1))

\* x + y.  A "fin" added to a "big" is below half an ulp of it and is lost.
Add(x, y) ==
    CASE x.k = "nan" \/ y.k = "nan" -> NaN
      [] x.k = "fin" /\ y.k = "fin" -> RatSum(x, y)
      [] x.k = "big" /\ y.k = "big" ->
            LET r == RatSum(x, y) IN Big(r.n, r.d)
      [] x.k = "big" /\ y.k = "fin" -> x
      [] x.k = "fin" /\ y.k = "big" -> y
      [] x.k = "inf" /\ y.k = "inf" -> IF x.n = y.n THEN x ELSE NaN
      [] x.k = "inf" /\ y.k \in {"fin", "big"} -> x
      [] x.k \in {"fin", "big"} /\ y.k = "inf" -> y
      [] IsFinite(x) /\ IsFinite(y) ->
            IF SignClass(x) = "zero" THEN y
            ELSE IF SignClass(y) = "zero" THEN x
            ELSE Known(SumClass(SignClass(x), SignClass(y)))

Sub(x, y) == Add(x, Neg(y))

Mul(x, y) ==
    CASE x.k = "nan" \/ y.k = "nan" -> NaN
      [] x.k = "fin" /\ y.k = "fin" -> RatProduct(x, y)
      [] (x.k = "big" /\ y.k = "fin") \/ (x.k = "fin" /\ y.k = "big") ->
            LET r == RatProduct(x, y) IN Big(r.n, r.d)
      [] (x.k = "inf" /\ y.k \in {"fin", "inf"})
            \/ (x.k = "fin" /\ y.k = "inf") ->
            IF Sign(x) * Sign(y) = 0 THEN NaN ELSE Inf(Sign(x) * Sign(y))
      [] IsFinite(x) /\ IsFinite(y) ->
            IF x = Num(1) THEN y
            ELSE IF y = Num(1) THEN x
            ELSE Known(ProductClass(SignClass(x), SignClass(y)))

\* x / y on numpy floats: a division by zero gives inf or nan, not an error.
Div(x, y) ==
    CASE x.k = "nan" \/ y.k = "nan" -> NaN
      [] x.k = "fin" /\ y.k = "fin" ->
            IF y.n = 0
            THEN IF x.n = 0 THEN NaN ELSE Inf(Sign(x))
            ELSE RatProduct(x, Fin(y.d, y.n))
      [] x.k = "big" /\ y.k = "fin" /\ y.n # 0 ->
            LET r == RatProduct(x, Fin(y.d, y.n)) IN Big(r.n, r.d)
      [] x.k = "inf" /\ y.k = "inf" -> NaN
      [] x.k = "inf" /\ y.k = "fin" -> Inf(x.n * (IF y.n < 0 THEN -1 ELSE 1))
      [] x.k = "fin" /\ y.k = "inf" -> Num(0)
      [] IsFinite(x) /\ IsFinite(y) /\ SignClass(y) \in {"pos", "neg"} ->
            IF y = Num(1) THEN x
            ELSE Known(QuotientClass(SignClass(x), SignClass(y)))

\* np.square: the square of a float of unknown sign is not negative.
Square(x) ==
    IF x.k \in {"nn", "real"} THEN Known("nn") ELSE Mul(x, x)

RECURSIVE SumSeq(_)
SumSeq(s) == IF s = <<>> THEN Num(0) ELSE Add(Head(s), SumSeq(Tail(s)))

\* A numpy array holds computed elements: the function a as a tuple of values.
Array(a) == a \o <<>>

\* The elementwise product of two equally long arrays.
Times(s, t) == Array([i \in 1..Len(s) |-> Mul(s[i], t[i])])

\* a[mask]: the elements of a at the positions where mask holds, in order.
RECURSIVE Compress(_, _)
Compress(a, mask) ==
    IF a = <<>> THEN <<>>
    ELSE (IF Head(mask) THEN <<Head(a)>> ELSE <<>>)
            \o Compress(Tail(a), Tail(mask))

\* Python's max() and min() of a non-empty sequence of finite floats.
MaxOf(s) == s[CHOOSE i \in 1..Len(s) : \A j \in 1..Len(s) : ~Lt(s[i], s[j])]

MinOf(s) == s[CHOOSE i \in 1..Len(s) : \A j \in 1..Len(s) : ~Lt(s[j], s[i])]

\* A variant of PyMin: the cap is not applied.
PyMin_NoCap(a, b) == a

\* Python's min(a, b): b when b < a, else a (so a NaN first argument stays).
PyMin(a, b) == IF Lt(b, a) THEN b ELSE a

---------------------------------------------------------------------------
(* Outcomes of a call *)

Return(v) == [status |-> "return", exc |-> "", value |-> v]

Raise(e) == [status |-> "raise", exc |-> e, value |-> <<>>]

NoCall == [status |-> "none", exc |-> "", value |-> <<>>]

---------------------------------------------------------------------------
(* Program constants *)

\* TOLERANCE = 1.e-12; every quantity of the model is in units of it.
TOLERANCE == 1

\* adjust_errors' default_error = 0.1 and systematic_deviation = 0.1.
DEFAULT_ERROR == Fin(1, 10)

SYSTEMATIC_DEVIATION == Fin(1, 10)

\* The cap of the reduced chi-square.
MAX_CHI2 == 99

---------------------------------------------------------------------------
(* numpy functions *)

\* The least r in lo..hi with r * r >= n, or hi if there is none.
RECURSIVE ISqrtBetween(_, _, _)
ISqrtBetween(n, lo, hi) ==
    IF lo >= hi THEN lo
    ELSE LET mid == (lo + hi) \div 2
         IN  IF mid * mid >= n
             THEN ISqrtBetween(n, lo, mid)
             ELSE ISqrtBetween(n, mid + 1, hi)

\* The integer square root, rounded up, of a natural number under 2^31.
ISqrt(n) == ISqrtBetween(n, 0, IF n < 46340 THEN n ELSE 46340)

IsSquare(n) == LET r == ISqrt(n) IN r * r = n

\* np.sqrt: exact on the squares of rationals, symbolic on the other positive
\* rationals, NaN below zero.
Sqrt(x) ==
    CASE x.k = "nan" -> NaN
      [] x.k = "inf" -> IF x.n > 0 THEN x ELSE NaN
      [] x.k = "fin" /\ x.n < 0 -> NaN
      [] x.k = "fin" /\ IsSquare(x.n) /\ IsSquare(x.d) ->
            Fin(ISqrt(x.n), ISqrt(x.d))
      [] x.k = "fin" -> [k |-> "sqrt", n |-> x.n, d |-> x.d]
      [] SignClass(x) \in {"pos", "nn"} -> Known(SignClass(x))

\* np.exp(-chi2 / 2) in binary64: exactly 1 at 0, exactly 0 once -chi2/2 is
\* below the logarithm of half the least subnormal (chi2 > 2*1075*ln 2, about
\* 1490.27; 1490.3 here), and strictly between 0 and 1 otherwise.
ExpNegHalf(chi2) ==
    CASE chi2.k = "nan" -> NaN
      [] chi2.k = "inf" -> IF chi2.n > 0 THEN Num(0) ELSE Inf(1)
      [] chi2.n = 0 -> Num(1)
      [] Lt(Fin(14903, 10), chi2) -> Num(0)
      [] OTHER -> [k |-> "exp", n |-> chi2.n, d |-> chi2.d]

---------------------------------------------------------------------------
(* adjust_errors *)

\* A variant of ReplaceLowErrors: a low error is replaced by the default
\* error itself.
ReplaceLowErrors_Substitute(error, default_error) ==
    [i \in 1..Len(error) |->
        IF Lt(error[i], Num(TOLERANCE))
        THEN default_error
        ELSE error[i]]

\* error[error < TOLERANCE] = default_error * error[error < TOLERANCE]
ReplaceLowErrors(error, default_error) ==
    [i \in 1..Len(error) |->
        IF Lt(error[i], Num(TOLERANCE))
        THEN Mul(default_error, error[i])
        ELSE error[i]]

\* A variant of AddSystematic: the systematic term is taken off.
AddSystematic_Difference(flux, error, systematic_deviation) ==
    [i \in 1..Len(error) |->
        Sqrt(Sub(Square(error[i]),
                 Square(Mul(flux[i], systematic_deviation))))]

\* np.sqrt(np.square(error) + np.square(flux * systematic_deviation))
AddSystematic(flux, error, systematic_deviation) ==
    [i \in 1..Len(error) |->
        Sqrt(Add(Square(error[i]),
                 Square(Mul(flux[i], systematic_deviation))))]

adjust_errors(flux, error) ==
    IF Len(flux) # Len(error)
    THEN Raise("ValueError")
    ELSE Return(AddSystematic(flux,
                              ReplaceLowErrors(error, DEFAULT_ERROR),
                              SYSTEMATIC_DEVIATION))

---------------------------------------------------------------------------
(* compute_chi2 *)

\* len(model_fluxes) != len(obs_fluxes) or len(obs_fluxes) != len(obs_errors)
LengthsDiffer(model, obs, errors) ==
    Len(model) # Len(obs) \/ Len(obs) # Len(errors)

\* A variant of OverTolerance: >= in place of >.
OverTolerance_OrEqual(a) == [i \in 1..Len(a) |-> ~Lt(a[i], Num(TOLERANCE))]

\* obs_fluxes > TOLERANCE, obs_errors > TOLERANCE: a boolean mask
OverTolerance(a) == [i \in 1..Len(a) |-> Gt(a[i], Num(TOLERANCE))]

\* normalisation_factor = sum(obs_fluxes * model_fluxes) /
\*                        sum(model_fluxes * model_fluxes)
NormalisationFactor(model, obs) ==
    Div(SumSeq(Times(obs, model)), SumSeq(Times(model, model)))

\* chi2 = sum(np.square((obs_fluxes - norm_model_fluxes) / obs_errors))
Chi2(norm_model, obs, errors) ==
    SumSeq([i \in 1..Len(obs) |->
                Square(Div(Sub(obs[i], norm_model[i]), errors[i]))])

\* The branch taken with the filters whose error is over the threshold.
FitRetained(model, obs, errors) ==
    LET degrees_of_freedom == Len(model) - 1 IN
    IF degrees_of_freedom = 0
    THEN Return(<<Num(0), Div(SumSeq(obs), SumSeq(model)), Num(1)>>)
    ELSE IF Len(model) = 0
    THEN \* sum() of an empty array is the int 0, and 0 / 0 raises
         Raise("ZeroDivisionError")
    ELSE LET normalisation_factor == NormalisationFactor(model, obs)
             norm_model == [i \in 1..Len(model) |->
                                Mul(normalisation_factor, model[i])]
             chi2 == Chi2(norm_model, obs, errors)
             reduced_chi2 == Div(chi2, Num(degrees_of_freedom))
         IN  Return(<<PyMin(reduced_chi2, Num(MAX_CHI2)),
                      normalisation_factor,
                      ExpNegHalf(chi2)>>)

\* max(obs_fluxes) < TOLERANCE
NoFluxOverTolerance(obs) == Lt(MaxOf(obs), Num(TOLERANCE))

\* A variant of ValidErrorUnderTolerance: max() in place of min().
ValidErrorUnderTolerance_Max(valid) == Lt(MaxOf(valid), Num(TOLERANCE))

\* min(obs_errors[obs_fluxes > TOLERANCE]) < TOLERANCE, on a non-empty selection
ValidErrorUnderTolerance(valid) == Lt(MinOf(valid), Num(TOLERANCE))

\* A variant of NotFitting: the observation that cannot be fitted is given
\* the probability 1.
NotFitting_Likely == <<Num(MAX_CHI2), Num(1), Num(1)>>

\* The value returned for an observation that cannot be fitted.
NotFitting == <<Num(MAX_CHI2), Num(1), Num(0)>>

\* A variant of Compare: the fit uses every filter, none is dropped.
Compare_AllFilters(model, obs, errors) ==
    IF Len(obs) = 0
    THEN Raise("ValueError")
    ELSE IF NoFluxOverTolerance(obs)
    THEN Return(NotFitting)
    ELSE LET valid == Compress(errors, OverTolerance(obs)) IN
         IF valid = <<>>
         THEN Raise("ValueError")
         ELSE IF ValidErrorUnderTolerance(valid)
         THEN Return(NotFitting)
         ELSE FitRetained(model, obs, errors)

\* compute_chi2 once the lengths are known to agree.
Compare(model, obs, errors) ==
    IF Len(obs) = 0
    THEN \* max() of an empty sequence
         Raise("ValueError")
    ELSE IF NoFluxOverTolerance(obs)
    THEN Return(NotFitting)
    ELSE LET valid == Compress(errors, OverTolerance(obs)) IN
         IF valid = <<>>
         THEN \* min() of an empty sequence
              Raise("ValueError")
         ELSE IF ValidErrorUnderTolerance(valid)
         THEN Return(NotFitting)
         ELSE LET keep == OverTolerance(errors)
              IN  FitRetained(Compress(model, keep),
                              Compress(obs, keep),
                              Compress(errors, keep))

\* A variant of compute_chi2: arguments of unequal lengths are reported as an
\* observation that cannot be fitted instead of being rejected.
compute_chi2_NotFittingOnMismatch(model, obs, errors) ==
    IF LengthsDiffer(model, obs, errors)
    THEN Return(NotFitting)
    ELSE Compare(model, obs, errors)

compute_chi2(model, obs, errors) ==
    IF LengthsDiffer(model, obs, errors)
    THEN Raise("ValueError")
    ELSE Compare(model, obs, errors)

---------------------------------------------------------------------------
(* The calls of compute_chi2 and adjust_errors on enumerated arguments *)

\* The variables of Module.process, where it is not the function called.
NoGrid ==
    /\ sed_modules_params = <<>>
    /\ save_pdf = FALSE
    /\ pdf_max_bin_number = 0
    /\ obs_table = <<>>
    /\ comp_table = <<>>
    /\ model_index = 0
    /\ obs_index = 0
    /\ results = <<>>
    /\ best_indices = <<>>
    /\ pdf_tables = <<>>

\* The variables of Counter, where no Counter is made.
NoCounter ==
    /\ nmodels = 0
    /\ freq_inc = 1
    /\ freq_print = 1
    /\ global_counter = 0
    /\ lock_owner = 0
    /\ proc_counter = <<>>
    /\ at = <<>>
    /\ loaded = <<>>
    /\ n_local = <<>>
    /\ calls = <<>>
    /\ printed = <<>>

\* What gen_pdf returns when there is no PDF, and before any call.
None == [kind |-> "None", grid |-> <<>>]

\* The variables of save_pdf, where it is not the function called.
NoKde ==
    /\ model_variables = <<>>
    /\ likelihood = <<>>
    /\ var_index = 0
    /\ pdf_prob = None
    /\ reports = <<>>
    /\ files = <<>>

\* Per filter: a model flux that is zero or not, an observed flux below, at and
\* far above the threshold, an error below, at and above the threshold.
ModelFluxValues == {Num(0), Num(2)}

ObsFluxValues == {Num(0), Num(1), Num(80)}

ObsErrorValues == {Num(0), Num(1), Num(2), Num(3)}

\* For adjust_errors: also a negative flux, and an error below the threshold
\* that is not zero.
AdjustFluxValues == ObsFluxValues \cup {Num(-80)}

AdjustErrorValues == ObsErrorValues \cup {Fin(1, 2)}

SeqsUpTo(S, n) == UNION {[1..l -> S] : l \in 0..n}

\* Arguments of equal length take every combination of values; arguments of
\* unequal lengths, which are rejected before any value is read, take one
\* value per argument.
InitKernel ==
    /\ \/ /\ fn = "compute_chi2"
          /\ \/ \E l \in 0..MaxLen :
                  /\ model_fluxes \in [1..l -> ModelFluxValues]
                  /\ obs_fluxes \in [1..l -> ObsFluxValues]
                  /\ obs_errors \in [1..l -> ObsErrorValues]
             \/ /\ model_fluxes \in SeqsUpTo({Num(2)}, MaxLen)
                /\ obs_fluxes \in SeqsUpTo({Num(80)}, MaxLen)
                /\ obs_errors \in SeqsUpTo({Num(3)}, MaxLen)
                /\ LengthsDiffer(model_fluxes, obs_fluxes, obs_errors)
       \/ /\ fn = "adjust_errors"
          /\ model_fluxes = <<>>
          /\ \/ \E l \in 0..MaxLen :
                  /\ obs_fluxes \in [1..l -> AdjustFluxValues]
                  /\ obs_errors \in [1..l -> AdjustErrorValues]
             \/ /\ obs_fluxes \in SeqsUpTo({Num(80)}, MaxLen)
                /\ obs_errors \in SeqsUpTo({Num(3)}, MaxLen)
                /\ Len(obs_fluxes) # Len(obs_errors)
    /\ values = <<>>
    /\ weights = <<>>
    /\ max_bins = 0
    /\ pc = "call"
    /\ ret = NoCall
    /\ NoGrid
    /\ NoKde
    /\ NoCounter

\* The caller's arrays after compute_chi2: the function binds its names to
\* copies and to selections of them and writes into no array.
ArgumentsAfterComputeChi2(model, obs, errors) == <<model, obs, errors>>

\* A variant of ArgumentsAfterAdjustErrors: the low errors are replaced in
\* the array that was passed.
ArgumentsAfterAdjustErrors_NoCopy(flux, error) ==
    IF Len(flux) # Len(error)
    THEN <<flux, error>>
    ELSE <<flux, ReplaceLowErrors(error, DEFAULT_ERROR)>>

\* The caller's arrays after adjust_errors: the only write into an array,
\* error[error < TOLERANCE] = ..., is made on np.copy(error).
ArgumentsAfterAdjustErrors(flux, error) == <<flux, error>>

CallComputeChi2 ==
    /\ fn = "compute_chi2"
    /\ pc = "call"
    /\ ret' = compute_chi2(model_fluxes, obs_fluxes, obs_errors)
    /\ \E after \in {ArgumentsAfterComputeChi2(model_fluxes, obs_fluxes,
                                              obs_errors)} :
            /\ model_fluxes' = after[1]
            /\ obs_fluxes' = after[2]
            /\ obs_errors' = after[3]
    /\ pc' = "done"
    /\ UNCHANGED <<counterArgs, counterState, kdeState, fn, statArgs,
                   gridArgs, gridState>>

CallAdjustErrors ==
    /\ fn = "adjust_errors"
    /\ pc = "call"
    /\ ret' = adjust_errors(obs_fluxes, obs_errors)
    /\ \E after \in {ArgumentsAfterAdjustErrors(obs_fluxes, obs_errors)} :
            /\ obs_fluxes' = after[1]
            /\ obs_errors' = after[2]
    /\ model_fluxes' = model_fluxes
    /\ pc' = "done"
    /\ UNCHANGED <<counterArgs, counterState, kdeState, fn, statArgs,
                   gridArgs, gridState>>

NextKernel == CallComputeChi2 \/ CallAdjustErrors

SpecKernel == InitKernel /\ [][NextKernel]_vars

---------------------------------------------------------------------------
(* w_mean_sigma *)

\* x == 0 on a float whose being zero or not is known
IsZero(x) ==
    CASE x.k = "fin" -> x.n = 0
      [] x.k \in {"nan", "inf", "big", "exp", "sqrt", "pos"} -> FALSE

\* np.dot of two equally long arrays
Dot(s, t) == SumSeq(Times(s, t))

\* A variant of np_average: a plain quotient of sums, with no test of the
\* total weight.
np_average_Unchecked(a, w) ==
    IF Len(a) # Len(w)
    THEN Raise("TypeError")
    ELSE Return(Div(Dot(a, w), SumSeq(w)))

\* np.average(a, weights=w): refuses arrays of different shapes and weights
\* that sum to zero.
np_average(a, w) ==
    IF Len(a) # Len(w)
    THEN Raise("TypeError")
    ELSE IF IsZero(SumSeq(w))
    THEN Raise("ZeroDivisionError")
    ELSE Return(Div(Dot(a, w), SumSeq(w)))

\* A variant of WeightedVariance: the sum is divided by the number of values.
WeightedVariance_ByCount(v, w, mean) ==
    Div(Dot(w, Array([i \in 1..Len(v) |-> Square(Sub(v[i], mean))])),
        Num(Len(v)))

\* np.dot(weights, (values - mean) ** 2) / np.sum(weights)
WeightedVariance(v, w, mean) ==
    Div(Dot(w, Array([i \in 1..Len(v) |-> Square(Sub(v[i], mean))])), SumSeq(w))

w_mean_sigma(v, w) ==
    LET average == np_average(v, w) IN
    IF average.status = "raise"
    THEN average
    ELSE Return(<<average.value,
                  Sqrt(WeightedVariance(v, w, average.value))>>)

---------------------------------------------------------------------------
(* bin_evenly *)

\* scipy.stats.mstats.mquantiles' default plotting positions
ALPHAP == Fin(2, 5)

BETAP == Fin(2, 5)

\* np.sort
RECURSIVE Sort(_)
Sort(a) ==
    IF a = <<>> THEN <<>>
    ELSE LET i == CHOOSE j \in 1..Len(a) : \A l \in 1..Len(a) : ~Lt(a[l], a[j])
         IN  <<a[i]>> \o Sort([j \in 1..(Len(a) - 1) |->
                                    IF j < i THEN a[j] ELSE a[j + 1]])

\* x.clip(lo, hi) on a rational
Clip(x, lo, hi) == IF Lt(x, lo) THEN lo ELSE IF Lt(hi, x) THEN hi ELSE x

\* np.floor of a rational, as an integer
Floor(x) == x.n \div x.d

\* np.linspace(0, 1, num): num evenly spaced fractions from 0 to 1
Linspace01(num) ==
    [i \in 1..num |-> IF num = 1 THEN Num(0) ELSE Fin(i - 1, num - 1)]

\* mquantiles(data, prob) on unmasked one-dimensional data that is not empty
mquantiles(data, prob) ==
    LET x == Sort(data)
        n == Len(x)
    IN  Array([j \in 1..Len(prob) |->
            IF n = 1 THEN x[1]
            ELSE LET p == prob[j]
                     m == Add(ALPHAP,
                              Mul(p, Sub(Sub(Num(1), ALPHAP), BETAP)))
                     aleph == Add(Mul(Num(n), p), m)
                     k == Floor(Clip(aleph, Num(1), Num(n - 1)))
                     gamma == Clip(Sub(aleph, Num(k)), Num(0), Num(1))
                 IN  Add(Mul(Sub(Num(1), gamma), x[k]), Mul(gamma, x[k + 1]))])

\* np.digitize(x, bins) for non-decreasing bins: i with bins[i-1] <= x < bins[i],
\* counted from 1; 0 below the first bin and len(bins) from the last one on.
Digitize(x, bins) ==
    Array([i \in 1..Len(x) |->
                Cardinality({j \in 1..Len(bins) : Le(bins[j], x[i])})])

\* digitize_boundaries[-1] += 1
BumpLast(boundaries) ==
    Array([j \in 1..Len(boundaries) |->
                IF j < Len(boundaries) THEN boundaries[j]
                ELSE Add(boundaries[j], Num(1))])

bin_evenly(v, bins_asked) ==
    LET bins == IF bins_asked > Len(v) THEN Len(v) ELSE bins_asked
        quantiles == Linspace01(bins + 1)
        boundaries == mquantiles(v, quantiles)
        digitize_boundaries == BumpLast(boundaries)
        bin_digits == Digitize(v, digitize_boundaries)
    IN  Return(<<boundaries, bin_digits>>)

---------------------------------------------------------------------------
(* The calls of w_mean_sigma and bin_evenly on enumerated arguments *)

StatValues == {Num(1), Num(2), Num(3)}

\* Values of a magnitude where binary64 has no room for x + 1, such as a
\* luminosity in W.
BigValues == {[k |-> "big", n |-> i, d |-> 1] : i \in 1..3}

WeightValues == {Num(0), Num(1), Num(2)}

InitStats ==
    /\ \/ /\ fn = "w_mean_sigma"
          /\ \/ \E l \in 0..MaxValues :
                  /\ values \in [1..l -> StatValues]
                  /\ weights \in [1..l -> WeightValues]
             \/ /\ values \in SeqsUpTo({Num(1)}, MaxValues)
                /\ weights \in SeqsUpTo({Num(1)}, MaxValues)
                /\ Len(values) # Len(weights)
          /\ max_bins = 0
       \/ /\ fn = "bin_evenly"
          /\ \E l \in 1..MaxValues :
                \/ values \in [1..l -> StatValues]
                \/ values \in [1..l -> BigValues]
          /\ weights = <<>>
          /\ max_bins \in 1..MaxBins
    /\ model_fluxes = <<>>
    /\ obs_fluxes = <<>>
    /\ obs_errors = <<>>
    /\ pc = "call"
    /\ ret = NoCall
    /\ NoGrid
    /\ NoKde
    /\ NoCounter

CallWMeanSigma ==
    /\ fn = "w_mean_sigma"
    /\ pc = "call"
    /\ ret' = w_mean_sigma(values, weights)
    /\ pc' = "done"
    /\ UNCHANGED <<counterArgs, counterState, kdeState, fn, kernelArgs,
                   statArgs, gridArgs, gridState>>

CallBinEvenly ==
    /\ fn = "bin_evenly"
    /\ pc = "call"
    /\ ret' = bin_evenly(values, max_bins)
    /\ pc' = "done"
    /\ UNCHANGED <<counterArgs, counterState, kdeState, fn, kernelArgs,
                   statArgs, gridArgs, gridState>>

NextStats == CallWMeanSigma \/ CallBinEvenly

SpecStats == InitStats /\ [][NextStats]_vars

---------------------------------------------------------------------------
(* Module.process *)

\* The filters of column_list, each with its error column.
filter_list == <<"FUV", "NUV">>

\* parameters["analysed_variables"]
analysed_variables == <<"sfr", "age">>

\* sed.mass_proportional_info of the models of the grid
mass_proportional_info == {"sfr"}

\* ['galaxy_mass'] + analysed_variables
Variables == <<"galaxy_mass">> \o analysed_variables

\* What create_sed gives for one entry of sed_modules_params: the fluxes of
\* the SED in the filters (every row of the table is at one redshift) and
\* sed.info.
Sed(fuv, nuv, sfr, age) ==
    [fluxes |-> <<Num(fuv), Num(nuv)>>,
     info |-> [sfr |-> sfr, age |-> Num(age)]]

\* Two models with a small mass-proportional quantity and one where it has
\* the magnitude of a luminosity in W.
SedChoices ==
    {Sed(1, 2, Num(1), 3), Sed(2, 1, Num(2), 3), Sed(2, 2, Big(3, 1), 5)}

\* A model that has no flux in the filters of the table.
DarkSed == Sed(0, 0, Num(1), 3)

\* A row of the data file: a flux and an error per filter.
Row(fuv, fuv_err, nuv, nuv_err) ==
    [flux |-> <<Num(fuv), Num(nuv)>>, err |-> <<Num(fuv_err), Num(nuv_err)>>]

\* A source that is not detected, one with two measured fluxes, one detected
\* in one filter, one far from every model, one with fluxes at the threshold.
RowChoices ==
    {Row(0, 0, 0, 0), Row(80, 6, 80, 6), Row(80, 0, 0, 0),
     Row(800, 0, 100, 0), Row(1, 0, 1, 0)}

\* The default of pdf_max_bin_number and a smaller value.
PdfMaxBinChoices == {2, 50}

InitGrid ==
    /\ fn = "process"
    /\ pc = "start"
    /\ ret = NoCall
    /\ obs_table \in SeqsUpTo(RowChoices, MaxObs)
    /\ \/ /\ save_pdf = FALSE
          /\ pdf_max_bin_number = 50
          /\ sed_modules_params
                \in SeqsUpTo(SedChoices \cup {DarkSed}, MaxModels)
       \/ /\ save_pdf = TRUE
          /\ pdf_max_bin_number \in PdfMaxBinChoices
          /\ sed_modules_params \in SeqsUpTo(SedChoices, MaxModels)
    /\ comp_table = <<>>
    /\ model_index = 0
    /\ obs_index = 0
    /\ results = <<>>
    /\ best_indices = <<>>
    /\ pdf_tables = <<>>
    /\ model_fluxes = <<>>
    /\ obs_fluxes = <<>>
    /\ obs_errors = <<>>
    /\ values = <<>>
    /\ weights = <<>>
    /\ max_bins = 0
    /\ NoKde
    /\ NoCounter

\* obs_table[name] and obs_table[name + '_err'] for the filter of position f
FluxColumn(table, f) == [o \in 1..Len(table) |-> table[o].flux[f]]

ErrColumn(table, f) == [o \in 1..Len(table) |-> table[o].err[f]]

\* A variant of AdjustedTable: the errors go through adjust_errors a second
\* time.
AdjustedTable_Twice(table) ==
    [o \in 1..Len(table) |->
        [flux |-> table[o].flux,
         err |-> [f \in 1..Len(filter_list) |->
                    adjust_errors(
                        FluxColumn(table, f),
                        adjust_errors(FluxColumn(table, f),
                                      ErrColumn(table, f)).value).value[o]]]]

\* obs_table[name_err] = adjust_errors(obs_table[name], obs_table[name_err]),
\* for every filter; the two columns of a table are equally long.
AdjustedTable(table) ==
    [o \in 1..Len(table) |->
        [flux |-> table[o].flux,
         err |-> [f \in 1..Len(filter_list) |->
                    adjust_errors(FluxColumn(table, f),
                                  ErrColumn(table, f)).value[o]]]]

\* np.zeros((models, rows, len(analysed_variables) + 3)) filled with np.nan
EmptyCompTable(models, rows) ==
    [m \in 1..models |->
        [o \in 1..rows |-> [c \in 1..(Len(analysed_variables) + 3) |-> NaN]]]

\* An exception leaves process: nothing more is computed or written.
Abort(exception) ==
    /\ pc' = "aborted"
    /\ ret' = exception
    /\ UNCHANGED <<counterArgs, counterState, kdeState, fn, kernelArgs,
                   statArgs, gridArgs, gridState>>

\* The start of process, up to the allocation of comp_table.
ReadObservations ==
    /\ fn = "process"
    /\ pc = "start"
    /\ results' = [v \in {Variables[i] : i \in 1..Len(Variables)} |-> <<>>]
    /\ obs_table' = AdjustedTable(obs_table)
    /\ comp_table' = EmptyCompTable(Len(sed_modules_params), Len(obs_table))
    /\ model_index' = 1
    /\ obs_index' = 1
    /\ pc' = "models"
    /\ UNCHANGED <<counterArgs, counterState, kdeState, fn, kernelArgs,
                   statArgs, gridArgs, ret, best_indices, pdf_tables>>

\* A variant of Cells: no analysed variable is multiplied by the galaxy mass.
Cells_Unscaled(sed, fit) ==
    <<fit[1], fit[3], fit[2]>>
        \o [index \in 1..Len(analysed_variables) |->
                sed.info[analysed_variables[index]]]

\* The cells of comp_table for one model and one row, in the order reduced
\* chi-square, probability, galaxy mass, analysed variables.
Cells(sed, fit) ==
    <<fit[1], fit[3], fit[2]>>
        \o [index \in 1..Len(analysed_variables) |->
                IF analysed_variables[index] \in mass_proportional_info
                THEN Mul(fit[2], sed.info[analysed_variables[index]])
                ELSE sed.info[analysed_variables[index]]]

\* The body of the loop on the rows, inside the loop on the models.
EvaluatePair ==
    /\ fn = "process"
    /\ pc = "models"
    /\ model_index <= Len(sed_modules_params)
    /\ obs_index <= Len(obs_table)
    /\ \E sed \in {sed_modules_params[model_index]} :
       \E fit \in {compute_chi2(sed.fluxes,
                                obs_table[obs_index].flux,
                                obs_table[obs_index].err)} :
           IF fit.status = "raise"
           THEN Abort(fit)
           ELSE /\ comp_table' =
                        [comp_table EXCEPT ![model_index][obs_index] =
                                                Cells(sed, fit.value)]
                /\ obs_index' = obs_index + 1
                /\ UNCHANGED <<counterArgs, counterState, kdeState, fn, pc,
                               kernelArgs, statArgs, gridArgs, ret, obs_table,
                               model_index, results, best_indices, pdf_tables>>

\* The end of the loop on the rows: the loop on the models moves on.
NextModel ==
    /\ fn = "process"
    /\ pc = "models"
    /\ model_index <= Len(sed_modules_params)
    /\ obs_index > Len(obs_table)
    /\ model_index' = model_index + 1
    /\ obs_index' = 1
    /\ UNCHANGED <<counterArgs, counterState, kdeState, fn, pc, kernelArgs,
                   statArgs, gridArgs, ret, obs_table, comp_table, results,
                   best_indices, pdf_tables>>

\* A variant of SaveCompTable: the loop on the observations starts as soon as
\* one model has been compared with every row.
SaveCompTable_Early ==
    /\ fn = "process"
    /\ pc = "models"
    /\ obs_index > Len(obs_table) \/ model_index > Len(sed_modules_params)
    /\ pc' = "aggregate"
    /\ obs_index' = 1
    /\ UNCHANGED <<counterArgs, counterState, kdeState, fn, kernelArgs,
                   statArgs, gridArgs, ret, obs_table, comp_table,
                   model_index, results, best_indices, pdf_tables>>

\* The end of the loop on the models: comp_table is saved and the loop on the
\* observations starts.
SaveCompTable ==
    /\ fn = "process"
    /\ pc = "models"
    /\ model_index > Len(sed_modules_params)
    /\ pc' = "aggregate"
    /\ obs_index' = 1
    /\ UNCHANGED <<counterArgs, counterState, kdeState, fn, kernelArgs,
                   statArgs, gridArgs, ret, obs_table, comp_table,
                   model_index, results, best_indices, pdf_tables>>

\* comp_table[:, o, c], with c counted from 1
Column(o, c) == Array([m \in 1..Len(comp_table) |-> comp_table[m][o][c]])

\* a.argmin(): the first NaN if there is one, else the first least element;
\* an error on an empty array.
ArgMin(a) ==
    IF a = <<>>
    THEN Raise("ValueError")
    ELSE IF \E i \in 1..Len(a) : a[i].k = "nan"
    THEN Return(CHOOSE i \in 1..Len(a) :
                    a[i].k = "nan" /\ \A j \in 1..(i - 1) : a[j].k # "nan")
    ELSE Return(CHOOSE i \in 1..Len(a) :
                    /\ \A j \in 1..Len(a) : ~Lt(a[j], a[i])
                    /\ \A j \in 1..(i - 1) : Lt(a[i], a[j]))

\* len(np.unique(a))
UniqueCount(a) == Cardinality({a[i] : i \in 1..Len(a)})

\* np.mean
Mean(a) == Div(SumSeq(a), Num(Len(a)))

\* pdf_bins == bin: a boolean mask
InBin(pdf_bins, bin) == Array([i \in 1..Len(pdf_bins) |-> pdf_bins[i] = bin])

\* bin_prob = np.sum(probabilities[pdf_bins == bin])
BinProb(probabilities, pdf_bins, bin) ==
    SumSeq(Compress(probabilities, InBin(pdf_bins, bin)))

\* A variant of BinMean: a bin of probability 0 gets the mean of its own
\* values.
BinMean_OwnValues(vals, probabilities, pdf_bins, bin) ==
    IF ~IsZero(BinProb(probabilities, pdf_bins, bin))
    THEN np_average(Compress(vals, InBin(pdf_bins, bin)),
                    Compress(probabilities, InBin(pdf_bins, bin)))
    ELSE Return(Mean(Compress(vals, InBin(pdf_bins, bin))))

\* bin_mean: the weighted mean inside the bin, or the mean of all the values
\* when the probability of the bin is 0.
BinMean(vals, probabilities, pdf_bins, bin) ==
    IF ~IsZero(BinProb(probabilities, pdf_bins, bin))
    THEN np_average(Compress(vals, InBin(pdf_bins, bin)),
                    Compress(probabilities, InBin(pdf_bins, bin)))
    ELSE Return(Mean(vals))

\* The loop on the bins: pdf_values and pdf_probs, or the first exception.
PdfOfBins(vals, probabilities, pdf_bin_number, boundaries, pdf_bins) ==
    LET bin_mean == Array([bin \in 1..pdf_bin_number |->
                            BinMean(vals, probabilities, pdf_bins, bin)])
        failed == {bin \in 1..pdf_bin_number : bin_mean[bin].status = "raise"}
    IN  IF failed # {}
        THEN bin_mean[CHOOSE bin \in failed : \A other \in failed : bin <= other]
        ELSE Return([boundaries |-> boundaries,
                     pdf_values |-> Array([bin \in 1..pdf_bin_number |->
                                            bin_mean[bin].value]),
                     pdf_probs |-> Array([bin \in 1..pdf_bin_number |->
                                    BinProb(probabilities, pdf_bins, bin)])])

\* min(pdf_max_bin_number, len(np.unique(values)))
PdfBinNumber(vals) ==
    IF UniqueCount(vals) < pdf_max_bin_number
    THEN UniqueCount(vals) ELSE pdf_max_bin_number

\* The probability distribution function of one variable for one row: the
\* boundaries of the bins, the value and the probability of each bin.
PdfOfBinned(vals, probabilities, pdf_bin_number, binned) ==
    IF binned.status = "raise"
    THEN binned
    ELSE PdfOfBins(vals, probabilities, pdf_bin_number,
                   binned.value[1], binned.value[2])

Pdf(vals, probabilities) ==
    PdfOfBinned(vals, probabilities, PdfBinNumber(vals),
                bin_evenly(vals, PdfBinNumber(vals)))

\* What the body of the loop on the variables adds to the results, given the
\* outcome of w_mean_sigma and that of the PDF.
Analysed(statistics, pdf) ==
    IF statistics.status = "raise"
    THEN statistics
    ELSE IF pdf.status = "raise"
    THEN pdf
    ELSE Return([stats |-> statistics.value, pdf |-> pdf.value])

\* The body of the loop on ['galaxy_mass'] + analysed_variables for the row
\* o and the variable of position index: its (mean, sigma) pair and its PDF
\* if one is asked for, or the exception that is raised.
AnalyseVariable(o, index) ==
    Analysed(w_mean_sigma(Column(o, index + 2), Column(o, 2)),
             IF save_pdf
             THEN Pdf(Column(o, index + 2), Column(o, 2))
             ELSE Return(<<>>))

\* The first exception of a sequence of outcomes, or their values.
FirstRaise(outcomes) ==
    IF \E i \in 1..Len(outcomes) : outcomes[i].status = "raise"
    THEN outcomes[CHOOSE i \in 1..Len(outcomes) :
                    /\ outcomes[i].status = "raise"
                    /\ \A j \in 1..(i - 1) : outcomes[j].status # "raise"]
    ELSE Return(Array([i \in 1..Len(outcomes) |-> outcomes[i].value]))

\* The loop on the variables for the row o: what each variable adds to the
\* results, or the first exception.
AnalyseVariables(o) ==
    FirstRaise(Array([index \in 1..Len(Variables) |->
                        AnalyseVariable(o, index)]))

\* The body of the loop on the observations.
AggregateObservation ==
    /\ fn = "process"
    /\ pc = "aggregate"
    /\ obs_index <= Len(obs_table)
    /\ \E best_index \in {ArgMin(Column(obs_index, 1))} :
       IF best_index.status = "raise"
       THEN Abort(best_index)
       ELSE \E analysis \in {AnalyseVariables(obs_index)} :
            IF analysis.status = "raise"
            THEN Abort(analysis)
            ELSE /\ best_indices' = Append(best_indices, best_index.value)
                 /\ results' =
                        [v \in DOMAIN results |->
                            Append(results[v],
                                   analysis.value[
                                       CHOOSE i \in 1..Len(Variables) :
                                                Variables[i] = v].stats)]
                 /\ pdf_tables' =
                        Append(pdf_tables,
                               [index \in 1..Len(Variables) |->
                                    analysis.value[index].pdf])
                 /\ obs_index' = obs_index + 1
                 /\ UNCHANGED <<counterArgs, counterState, kdeState, fn, pc,
                                kernelArgs, statArgs, gridArgs, ret,
                                obs_table, comp_table, model_index>>

\* The end of the loop on the observations: the result table is written.
WriteResults ==
    /\ fn = "process"
    /\ pc = "aggregate"
    /\ obs_index > Len(obs_table)
    /\ pc' = "done"
    /\ ret' = Return(results)
    /\ UNCHANGED <<counterArgs, counterState, kdeState, fn, kernelArgs,
                   statArgs, gridArgs, gridState>>

NextGrid ==
    \/ ReadObservations
    \/ EvaluatePair
    \/ NextModel
    \/ SaveCompTable
    \/ AggregateObservation
    \/ WriteResults

SpecGrid == InitGrid /\ [][NextGrid]_vars

---------------------------------------------------------------------------
(* The loop on the models of Module.process, in any order *)

\* A variant of WritePair: the cells are written for the model m and for
\* every model after it.
WritePair_Following(table, m, o, cells) ==
    [n \in 1..Len(table) |->
        IF n >= m THEN [table[n] EXCEPT ![o] = cells] ELSE table[n]]

\* comp_table[model_index, obs_index, ...] = ...: the writes of one pass of
\* the loop on the rows.
WritePair(table, m, o, cells) == [table EXCEPT ![m][o] = cells]

\* The rows that the model m has not been compared with: the allocation
\* filled their cells with NaN and the age of a model is a number.
PendingRows(m) ==
    {o \in 1..Len(obs_table) :
        \A c \in 1..Len(comp_table[m][o]) : comp_table[m][o][c] = NaN}

\* One pass of the body of the loop on the rows, for any model that has rows
\* left and its next row: the models are taken in any order and their passes
\* interleave.
EvaluateAnyPair ==
    /\ fn = "process"
    /\ pc = "models"
    /\ \E m \in 1..Len(sed_modules_params) :
       \E pending \in {PendingRows(m)} :
        /\ pending # {}
        /\ \E o \in {CHOOSE r \in pending : \A q \in pending : r <= q} :
           \E sed \in {sed_modules_params[m]} :
           \E fit \in {compute_chi2(sed.fluxes, obs_table[o].flux,
                                    obs_table[o].err)} :
            IF fit.status = "raise"
            THEN Abort(fit)
            ELSE /\ comp_table' =
                        WritePair(comp_table, m, o, Cells(sed, fit.value))
                 /\ UNCHANGED <<counterArgs, counterState, kdeState, fn, pc,
                                kernelArgs, statArgs, gridArgs, ret,
                                obs_table, model_index, obs_index, results,
                                best_indices, pdf_tables>>

\* Every model has been compared with every row: comp_table is saved.
SaveCompTableAnyOrder ==
    /\ fn = "process"
    /\ pc = "models"
    /\ \A m \in 1..Len(sed_modules_params) : PendingRows(m) = {}
    /\ pc' = "aggregate"
    /\ model_index' = Len(sed_modules_params) + 1
    /\ obs_index' = 1
    /\ UNCHANGED <<counterArgs, counterState, kdeState, fn, kernelArgs,
                   statArgs, gridArgs, ret, obs_table, comp_table, results,
                   best_indices, pdf_tables>>

NextAnyOrder ==
    \/ ReadObservations
    \/ EvaluateAnyPair
    \/ SaveCompTableAnyOrder

\* The PDFs are computed after the loop on the models: they are not asked
\* for here.
InitAnyOrder == InitGrid /\ save_pdf = FALSE

SpecAnyOrder == InitAnyOrder /\ [][NextAnyOrder]_vars

---------------------------------------------------------------------------
(* The loop on the models of Module.process, on a grid with a model whose *)
(* fluxes have the magnitude of the observed ones                          *)

\* A model with fluxes of 1 and 2, one with fluxes of 400 in both filters
\* and one without flux.
BrightSedChoices ==
    {Sed(1, 2, Num(1), 3), Sed(400, 400, Num(1), 3), DarkSed}

\* A source that is not detected, one with two measured fluxes, one with a
\* flux too faint for its error to reach the threshold, one measured in the
\* first filter with an upper limit in the second, and one with fluxes at
\* the threshold.
FaintRowChoices ==
    {Row(0, 0, 0, 0), Row(80, 6, 80, 6), Row(2, 0, 80, 6),
     Row(800, 0, 0, 2), Row(1, 0, 1, 0)}

InitBright ==
    /\ fn = "process"
    /\ pc = "start"
    /\ ret = NoCall
    /\ obs_table \in SeqsUpTo(FaintRowChoices, MaxObs)
    /\ save_pdf = FALSE
    /\ pdf_max_bin_number = 50
    /\ sed_modules_params \in SeqsUpTo(BrightSedChoices, MaxModels)
    /\ comp_table = <<>>
    /\ model_index = 0
    /\ obs_index = 0
    /\ results = <<>>
    /\ best_indices = <<>>
    /\ pdf_tables = <<>>
    /\ model_fluxes = <<>>
    /\ obs_fluxes = <<>>
    /\ obs_errors = <<>>
    /\ values = <<>>
    /\ weights = <<>>
    /\ max_bins = 0
    /\ NoKde
    /\ NoCounter

\* process up to the end of the loop on the models.
NextBright ==
    \/ ReadObservations
    \/ EvaluatePair
    \/ NextModel
    \/ SaveCompTable

SpecBright == InitBright /\ [][NextBright]_vars

---------------------------------------------------------------------------
(* gen_pdf and save_pdf of pdf_analysis/utils.py *)

\* np.around of a rational: the nearest integer, the even one at a tie.
Around(x) ==
    LET whole == x.n \div x.d
        rest == 2 * (x.n - whole * x.d)
    IN  IF rest < x.d THEN whole
        ELSE IF rest > x.d THEN whole + 1
        ELSE IF whole % 2 = 0 THEN whole ELSE whole + 1

\* np.ma.array(np.around(100. * probabilities), dtype=int)
IntegerWeights(probabilities) ==
    Array([i \in 1..Len(probabilities) |->
            Around(Mul(Num(100), probabilities[i]))])

\* [val] * count
Repeat(val, count) == [i \in 1..count |-> val]

\* The loop that fills combined_values: every value as many times as its
\* integer weight, none for the weight 0.
RECURSIVE CombinedValues(_, _)
CombinedValues(vals, counts) ==
    IF vals = <<>> THEN <<>>
    ELSE (IF Head(counts) # 0 THEN Repeat(Head(vals), Head(counts)) ELSE <<>>)
            \o CombinedValues(Tail(vals), Tail(counts))

\* A float with so short a mantissa that the sum of some hundred copies of
\* it is exact.
ShortMantissa(x) == x.k = "fin" /\ x.d \in {1, 2, 4, 8}

\* Whether np.cov of n >= 2 copies of the float x is exactly zero, that is
\* whether the computed mean of the copies is x itself.  It is when the sum
\* is exact.  In binary64 the mean of 3 and of 100 copies of 0.1 is
\* 0.10000000000000002 and the covariance about 2.9e-34; for other values
\* and counts the rounding of the sum decides.
ZeroCovariance(x, n) ==
    IF ShortMantissa(x) \/ n = 2 THEN {TRUE}
    ELSE IF x = Fin(1, 10) /\ n \in {3, 100} THEN {FALSE}
    ELSE {TRUE, FALSE}

\* The density gaussian_kde(dataset)(grid), an array over the grid.
Density(grid) == [kind |-> "array", grid |-> grid]

\* gaussian_kde(dataset)(grid): the outcomes it can have.  It refuses a
\* dataset of less than two elements (ValueError) and fails to invert a
\* covariance that is exactly zero (LinAlgError).
gaussian_kde(dataset, grid) ==
    IF Len(dataset) <= 1
    THEN {Raise("ValueError")}
    ELSE IF \E i \in 1..Len(dataset) : dataset[i] # dataset[1]
    THEN {Return(Density(grid))}
    ELSE {IF zero THEN Raise("LinAlgError") ELSE Return(Density(grid)) :
            zero \in ZeroCovariance(dataset[1], Len(dataset))}

\* gen_pdf: what it can return, None when gaussian_kde raises LinAlgError
\* or ValueError.
gen_pdf(vals, probabilities, grid) ==
    {IF kde.status = "raise" /\ kde.exc \in {"LinAlgError", "ValueError"}
     THEN None
     ELSE kde.value :
        kde \in gaussian_kde(
                    CombinedValues(vals, IntegerWeights(probabilities)), grid)}

\* Analysed values: two with a short mantissa and 0.1.
KdeValues == {Num(1), Num(2), Fin(1, 10)}

\* Likelihoods that give the integer weights 0, 0, 1, 3 and 100.
LikelihoodValues == {Num(0), Fin(1, 250), Fin(1, 100), Fin(3, 100), Num(1)}

\* save_pdf is called with the values of at least one model.
InitKde ==
    /\ fn = "save_pdf"
    /\ pc = "loop"
    /\ ret = NoCall
    /\ \E n \in 1..MaxPdfModels :
        /\ model_variables
                \in [1..n -> [1..Len(analysed_variables) -> KdeValues]]
        /\ likelihood \in [1..n -> LikelihoodValues]
    /\ var_index = 1
    /\ pdf_prob = None
    /\ reports = <<>>
    /\ files = <<>>
    /\ model_fluxes = <<>>
    /\ obs_fluxes = <<>>
    /\ obs_errors = <<>>
    /\ values = <<>>
    /\ weights = <<>>
    /\ max_bins = 0
    /\ NoGrid
    /\ NoCounter

\* model_variables[:, var_index], with var_index counted from 1
VariableColumn(index) ==
    Array([m \in 1..Len(model_variables) |-> model_variables[m][index]])

\* np.linspace(values.min(), values.max(), PDF_NB_POINTS), as its two ends
PdfGrid(vals) == <<MinOf(vals), MaxOf(vals)>>

\* The body of the loop of save_pdf for one variable: the omission is
\* printed or the table is written.
SavePdfVariable ==
    /\ fn = "save_pdf"
    /\ pc = "loop"
    /\ var_index <= Len(analysed_variables)
    /\ \E vals \in {VariableColumn(var_index)} :
       \E result \in gen_pdf(vals, likelihood, PdfGrid(vals)) :
            /\ pdf_prob' = result
            /\ IF result = None
               THEN /\ reports' = Append(reports, analysed_variables[var_index])
                    /\ files' = files
               ELSE /\ files' = Append(files, analysed_variables[var_index])
                    /\ reports' = reports
    /\ var_index' = var_index + 1
    /\ UNCHANGED <<counterArgs, counterState, fn, pc, ret, model_variables,
                   likelihood, kernelArgs,
                   statArgs, gridArgs, gridState>>

\* The end of the loop of save_pdf.
SavePdfReturn ==
    /\ fn = "save_pdf"
    /\ pc = "loop"
    /\ var_index > Len(analysed_variables)
    /\ pc' = "done"
    /\ ret' = Return(<<>>)
    /\ UNCHANGED <<counterArgs, counterState, kdeState, fn, kernelArgs,
                   statArgs, gridArgs, gridState>>

NextKde ==
    \/ SavePdfVariable
    \/ SavePdfReturn

SpecKde == InitKde /\ [][NextKde]_vars

---------------------------------------------------------------------------
(* Counter of src/utils/counter.py: inc() called by several processes *)

\* The worker processes that share the counter.
Procs == 1..MaxProcs

\* The sum of the entries of a tuple of integers.
RECURSIVE Total(_)
Total(t) == IF t = <<>> THEN 0 ELSE t[1] + Total(Tail(t))

\* __init__ accepts a printing frequency that is a multiple of the
\* incrementation frequency: the frequency itself and its double.
FreqPrintChoices(inc) == {inc, 2 * inc}

\* After __init__ and the start of the workers: every process has its own
\* proc_counter, at 0, and a number of calls of inc() to make; together they
\* make nmodels calls.
InitCounter ==
    /\ fn = "Counter.inc"
    /\ pc = "run"
    /\ ret = NoCall
    /\ freq_inc \in 1..MaxFreqInc
    /\ freq_print \in FreqPrintChoices(freq_inc)
    /\ calls \in [Procs -> 0..MaxCalls]
    /\ nmodels = Total(calls)
    /\ global_counter = 0
    /\ lock_owner = 0
    /\ proc_counter = [p \in Procs |-> 0]
    /\ at = [p \in Procs |-> "idle"]
    /\ loaded = [p \in Procs |-> 0]
    /\ n_local = [p \in Procs |-> 0]
    /\ printed = <<>>
    /\ model_fluxes = <<>>
    /\ obs_fluxes = <<>>
    /\ obs_errors = <<>>
    /\ values = <<>>
    /\ weights = <<>>
    /\ max_bins = 0
    /\ NoGrid
    /\ NoKde

\* What a step of inc() leaves alone.
NotOfCounter ==
    <<fn, pc, ret, kernelArgs, statArgs, gridArgs, gridState, kdeState,
      counterArgs>>

\* self.proc_counter += 1 and the test of proc_counter % freq_inc: inc()
\* goes on to the lock or returns.
IncEnter(p) ==
    /\ at[p] = "idle"
    /\ calls[p] > 0
    /\ proc_counter' = [proc_counter EXCEPT ![p] = proc_counter[p] + 1]
    /\ IF (proc_counter[p] + 1) % freq_inc = 0
       THEN /\ at' = [at EXCEPT ![p] = "lock"]
            /\ UNCHANGED calls
       ELSE /\ calls' = [calls EXCEPT ![p] = calls[p] - 1]
            /\ UNCHANGED at
    /\ UNCHANGED <<NotOfCounter, global_counter, lock_owner, loaded, n_local,
                   printed>>

\* A variant of Acquire: the process does not wait for the lock.
Acquire_NoWait(p) ==
    /\ at[p] = "lock"
    /\ lock_owner' = p
    /\ at' = [at EXCEPT ![p] = "load"]
    /\ UNCHANGED <<NotOfCounter, global_counter, proc_counter, loaded,
                   n_local, calls, printed>>

\* with self.global_counter.get_lock(): the process waits until no process
\* holds the lock.
Acquire(p) ==
    /\ at[p] = "lock"
    /\ lock_owner = 0
    /\ lock_owner' = p
    /\ at' = [at EXCEPT ![p] = "load"]
    /\ UNCHANGED <<NotOfCounter, global_counter, proc_counter, loaded,
                   n_local, calls, printed>>

\* self.global_counter.value += self.freq_inc, the read of the value
Load(p) ==
    /\ at[p] = "load"
    /\ loaded' = [loaded EXCEPT ![p] = global_counter]
    /\ at' = [at EXCEPT ![p] = "store"]
    /\ UNCHANGED <<NotOfCounter, global_counter, lock_owner, proc_counter,
                   n_local, calls, printed>>

\* self.global_counter.value += self.freq_inc, the write of the sum
Store(p) ==
    /\ at[p] = "store"
    /\ global_counter' = loaded[p] + freq_inc
    /\ at' = [at EXCEPT ![p] = "read"]
    /\ UNCHANGED <<NotOfCounter, lock_owner, proc_counter, loaded, n_local,
                   calls, printed>>

\* n = self.global_counter.value and the end of the with block
ReadAndRelease(p) ==
    /\ at[p] = "read"
    /\ n_local' = [n_local EXCEPT ![p] = global_counter]
    /\ lock_owner' = IF lock_owner = p THEN 0 ELSE lock_owner
    /\ at' = [at EXCEPT ![p] = "report"]
    /\ UNCHANGED <<NotOfCounter, global_counter, proc_counter, loaded, calls,
                   printed>>

\* if n % self.freq_print == 0: self.pprint(n), and the return of inc()
Report(p) ==
    /\ at[p] = "report"
    /\ printed' = IF n_local[p] % freq_print = 0
                  THEN Append(printed, n_local[p])
                  ELSE printed
    /\ calls' = [calls EXCEPT ![p] = calls[p] - 1]
    /\ at' = [at EXCEPT ![p] = "idle"]
    /\ UNCHANGED <<NotOfCounter, global_counter, lock_owner, proc_counter,
                   loaded, n_local>>

NextCounter ==
    \E p \in Procs :
        \/ IncEnter(p)
        \/ Acquire(p)
        \/ Load(p)
        \/ Store(p)
        \/ ReadAndRelease(p)
        \/ Report(p)

SpecCounter == InitCounter /\ [][NextCounter]_vars

---------------------------------------------------------------------------
(* Properties of compute_chi2 and adjust_errors, stated on the arguments  *)
(* and the outcome of the call.                                            *)

Called(f) == fn = f /\ pc = "done"

EqualLengths ==
    Len(model_fluxes) = Len(obs_fluxes) /\ Len(obs_fluxes) = Len(obs_errors)

Filters == 1..Len(obs_fluxes)

FluxOver(i) == obs_fluxes[i].n > TOLERANCE * obs_fluxes[i].d

FluxUnder(i) == obs_fluxes[i].n < TOLERANCE * obs_fluxes[i].d

ErrorOver(i) == obs_errors[i].n > TOLERANCE * obs_errors[i].d

ErrorUnder(i) == obs_errors[i].n < TOLERANCE * obs_errors[i].d

\* The filters that constrain the fit.
Constrained == {i \in Filters : ErrorOver(i)}

\* Some flux is over the threshold and no such flux has an error under it.
Fittable ==
    /\ EqualLengths
    /\ \E i \in Filters : FluxOver(i)
    /\ \A i \in Filters : FluxOver(i) => ~ErrorUnder(i)

RECURSIVE SumOver(_, _)
SumOver(S, f) ==
    IF S = {} THEN Num(0)
    ELSE LET i == CHOOSE x \in S : TRUE
         IN  Add(f[i], SumOver(S \ {i}, f))

\* The least-squares scale over the constrained filters.
ExpectedNorm ==
    Div(SumOver(Constrained, [i \in Filters |-> Mul(obs_fluxes[i], model_fluxes[i])]),
        SumOver(Constrained, [i \in Filters |-> Mul(model_fluxes[i], model_fluxes[i])]))

ExpectedChi2 ==
    SumOver(Constrained,
            [i \in Filters |->
                LET r == Div(Sub(obs_fluxes[i], Mul(ExpectedNorm, model_fluxes[i])),
                             obs_errors[i])
                IN  Mul(r, r)])

ExpectedReducedChi2 ==
    LET r == Div(ExpectedChi2, Num(Cardinality(Constrained) - 1))
    IN  IF r.k = "fin" /\ r.n > 99 * r.d THEN Num(99) ELSE r

\* C1: compute_chi2 returns exactly (99, 1, 0), whatever the model fluxes,
\* when every observed flux is under TOLERANCE (whatever the errors) or when
\* some filter with a flux over TOLERANCE has an error under TOLERANCE.
C1_NotFittingSentinel ==
    (/\ Called("compute_chi2")
     /\ EqualLengths
     /\ Filters # {}
     /\ \/ \A i \in Filters : FluxUnder(i)
        \/ \E i \in Filters : FluxOver(i) /\ ErrorUnder(i))
    => ret = [status |-> "return", exc |-> "",
              value |-> <<Num(99), Num(1), Num(0)>>]

\* A flux over the threshold with an error under it, beside a filter that is
\* well measured and a model that is not zero.
C1_Witness ==
    /\ Called("compute_chi2")
    /\ EqualLengths
    /\ \E i \in Filters : FluxOver(i) /\ ErrorUnder(i)
    /\ \E i \in Filters : FluxOver(i) /\ ErrorOver(i) /\ model_fluxes[i].n # 0
    /\ ret.status = "return"
    /\ ret.value = <<Num(99), Num(1), Num(0)>>

InUnitHalfOpen(p) == p.k = "exp" \/ (p.k = "fin" /\ p.n > 0 /\ p.n <= p.d)

InUnitClosed(p) == p.k = "exp" \/ (p.k = "fin" /\ p.n >= 0 /\ p.n <= p.d)

InZeroTo99(x) == x.k = "fin" /\ x.n >= 0 /\ x.n <= 99 * x.d

C3_NoDegreeOfFreedom ==
    (/\ Called("compute_chi2")
     /\ Fittable
     /\ Cardinality(Constrained) = 1)
    => LET i == CHOOSE x \in Constrained : TRUE
       IN  ret = [status |-> "return", exc |-> "",
                  value |-> <<Num(0),
                              Div(obs_fluxes[i], model_fluxes[i]),
                              Num(1)>>]

\* One constrained filter beside an unconstrained one: model 2, flux 80 gives
\* the factor 40.
C3_Witness ==
    /\ Called("compute_chi2")
    /\ Fittable
    /\ Len(obs_fluxes) >= 2
    /\ Cardinality(Constrained) = 1
    /\ \E i \in Constrained : model_fluxes[i] = Num(2) /\ obs_fluxes[i] = Num(80)
    /\ ret.status = "return"
    /\ ret.value = <<Num(0), Num(40), Num(1)>>

\* C4: on the fitting path with two or more errors over TOLERANCE, only the
\* filters with an error over TOLERANCE are used: normalisation_factor =
\* sum(obs*model)/sum(model*model) and reduced_chi2 = min(chi2/(count - 1), 99)
\* with chi2 = sum(((obs - normalisation_factor*model)/error)^2), all sums
\* over those filters.
C4_FitOverConstrainedFilters ==
    (/\ Called("compute_chi2")
     /\ Fittable
     /\ Cardinality(Constrained) >= 2)
    => /\ ret.status = "return"
       /\ ret.value[1] = ExpectedReducedChi2
       /\ ret.value[2] = ExpectedNorm

\* Three filters, one of them dropped although its flux and model flux are
\* not zero, and a reduced chi-square strictly between 0 and 99.
C4_Witness ==
    /\ Called("compute_chi2")
    /\ Fittable
    /\ Cardinality(Constrained) = 2
    /\ \E i \in Filters \ Constrained :
            model_fluxes[i].n # 0 /\ obs_fluxes[i].n # 0
    /\ ret.status = "return"
    /\ ret.value[1].k = "fin"
    /\ ret.value[1].n > 0
    /\ ret.value[1].n < 99 * ret.value[1].d

\* C5: compute_chi2 raises when the three lengths are not all equal and
\* adjust_errors raises when the two lengths differ; nothing is returned.
C5_LengthMismatchRaises ==
    /\ (Called("compute_chi2") /\ ~EqualLengths)
            => ret = [status |-> "raise", exc |-> "ValueError", value |-> <<>>]
    /\ (Called("adjust_errors") /\ Len(obs_fluxes) # Len(obs_errors))
            => ret = [status |-> "raise", exc |-> "ValueError", value |-> <<>>]

\* Model and observed fluxes agree in length, only the errors do not.
C5_Witness ==
    /\ Called("compute_chi2")
    /\ Len(model_fluxes) = Len(obs_fluxes)
    /\ Len(obs_fluxes) > Len(obs_errors)
    /\ Len(obs_errors) > 0
    /\ ret.status = "raise"

---------------------------------------------------------------------------
(* Properties of w_mean_sigma and bin_evenly *)

Indices == 1..Len(values)

RECURSIVE IntSum(_, _)
IntSum(S, f) ==
    IF S = {} THEN 0
    ELSE LET i == CHOOSE x \in S : TRUE IN f[i] + IntSum(S \ {i}, f)

\* The integer value of an enumerated value or weight.
Whole(x) == x.n \div x.d

TotalWeight == IntSum(Indices, [i \in Indices |-> Whole(weights[i])])

\* sum(w * v^e) over the arguments, e = 1 or 2
Moment(e) ==
    IntSum(Indices, [i \in Indices |->
        Whole(weights[i]) * (IF e = 1 THEN Whole(values[i])
                             ELSE Whole(values[i]) * Whole(values[i]))])

\* The square of a returned standard deviation.
SquareOfSigma(x) == IF x.k = "sqrt" THEN Fin(x.n, x.d) ELSE Mul(x, x)

\* C6: w_mean_sigma called with weights that are all zero raises (zero total
\* weight); it returns no (mean, sigma) pair.
C6_ZeroWeightsRaise ==
    (/\ Called("w_mean_sigma")
     /\ Len(values) = Len(weights)
     /\ \A i \in Indices : weights[i].n = 0)
    => /\ ret.status = "raise"
       /\ ret.exc = "ZeroDivisionError"
       /\ ret.value = <<>>

\* Several values, every weight zero.
C6_Witness ==
    /\ Called("w_mean_sigma")
    /\ Len(values) = Len(weights)
    /\ Len(values) >= 2
    /\ \A i \in Indices : weights[i].n = 0
    /\ ret.status = "raise"

\* C9: for equally long values v and non-negative weights w with sum(w) > 0,
\* w_mean_sigma returns mean = sum(w*v)/sum(w) and a sigma >= 0 with
\* sigma^2 = sum(w*(v-mean)^2)/sum(w), which is sum(w*v^2)/sum(w) - mean^2.
C9_WeightedMeanAndSigma ==
    (/\ Called("w_mean_sigma")
     /\ Len(values) = Len(weights)
     /\ \A i \in Indices : weights[i].n >= 0
     /\ TotalWeight > 0)
    => /\ ret.status = "return"
       /\ ret.value[1] = Fin(Moment(1), TotalWeight)
       /\ ret.value[2].k \in {"fin", "sqrt"}
       /\ ret.value[2].n >= 0
       /\ SquareOfSigma(ret.value[2]) =
            Sub(Fin(Moment(2), TotalWeight),
                Mul(Fin(Moment(1), TotalWeight), Fin(Moment(1), TotalWeight)))

\* Values 1, 2, 3 with weights 1, 1, 1: mean 2 and variance 2/3.
C9_Witness ==
    /\ Called("w_mean_sigma")
    /\ values = <<Num(1), Num(2), Num(3)>>
    /\ weights = <<Num(1), Num(1), Num(1)>>
    /\ ret.status = "return"
    /\ ret.value = <<Num(2), [k |-> "sqrt", n |-> 2, d |-> 3]>>

\* C10: for a non-empty value sequence of length N and max_bins B >= 1,
\* bin_evenly uses bins = min(B, N), returns bins + 1 boundaries and N bin
\* numbers, each in 1..bins, and every value equal to the maximum is in the
\* last bin.
C10_BinsInRange ==
    Called("bin_evenly") =>
        LET bins == IF max_bins < Len(values) THEN max_bins ELSE Len(values)
        IN  /\ ret.status = "return"
            /\ Len(ret.value[1]) = bins + 1
            /\ Len(ret.value[2]) = Len(values)
            /\ \A i \in Indices : ret.value[2][i] \in 1..bins
            /\ \A i \in Indices :
                    (\A j \in Indices : ~Lt(values[i], values[j]))
                        => ret.value[2][i] = bins

\* The number of bins bin_evenly settles on: min(max_bins, N).
BinsUsed == IF max_bins < Len(values) THEN max_bins ELSE Len(values)

\* The arguments are pairwise distinct values.
DistinctValues == \A i, j \in Indices : i # j => values[i] # values[j]

\* C11: for N pairwise distinct values and a number of bins that divides N,
\* bin_evenly puts exactly N / bins values in each of the bins 1..bins, and
\* the values of a lower bin are smaller than the values of a higher bin.
C11_EvenlyPopulatedBins ==
    (/\ Called("bin_evenly")
     /\ DistinctValues
     /\ Len(values) % BinsUsed = 0)
    => /\ ret.status = "return"
       /\ \A b \in 1..BinsUsed :
            Cardinality({i \in Indices : ret.value[2][i] = b})
                = Len(values) \div BinsUsed
       /\ \A i, j \in Indices :
            ret.value[2][i] < ret.value[2][j] => Lt(values[i], values[j])

---------------------------------------------------------------------------
(* Properties of Module.process *)

\* comp_table holds the comparison of every model with every observation.
Tabulated ==
    /\ fn = "process"
    /\ pc \in {"aggregate", "aborted", "done"}
    /\ model_index > Len(sed_modules_params)

\* Every model has the probability 0 for the row o.
ZeroTotalWeight(o) ==
    /\ Len(comp_table) > 0
    /\ \A m \in 1..Len(comp_table) : comp_table[m][o][2] = Num(0)

\* C7: in Module.process, when every model has the probability 0 for some
\* observation, the run does not abort on that observation: the zero total
\* weight is found before the weighted statistics are computed and the
\* observations that follow are still aggregated.
C7_ZeroWeightDoesNotAbort ==
    \A o \in 1..Len(obs_table) :
        (Tabulated /\ ZeroTotalWeight(o)) => ~(pc = "aborted" /\ obs_index = o)

\* C8: when the grid of models or the observation table is empty,
\* Module.process allocates a comp_table of zero extent and the aggregation
\* of the observations ends without an error and with no result.
C8_EmptyGridIsNoOp ==
    (/\ fn = "process"
     /\ Len(sed_modules_params) = 0 \/ Len(obs_table) = 0)
    => /\ pc # "aborted"
       /\ pc \in {"models", "aggregate", "done"}
            => \A m \in 1..Len(comp_table) : comp_table[m] = <<>>
       /\ pc = "done" => \A v \in DOMAIN results : results[v] = <<>>

\* The bin numbers bin_evenly gave to the models for the row o and the
\* variable of position index.
PdfDigits(o, index) ==
    bin_evenly(Column(o, index + 2),
               PdfBinNumber(Column(o, index + 2))).value[2]

\* The probabilities of the row o are exact numbers (0 or 1).
ExactProbabilities(o) ==
    \A m \in 1..Len(comp_table) : comp_table[m][o][2].k = "fin"

\* C12: in the binned PDF of every aggregated row and variable there are as
\* many (value, probability) tuples as bins, the probability of every model
\* is counted in exactly one of the bins, and the masses of the bins add up
\* to the sum of the probabilities of the models; N identical values give one
\* bin that holds the whole mass.
C12_BinMassesConserveWeight ==
    save_pdf =>
        \A o \in 1..Len(pdf_tables) : \A index \in 1..Len(Variables) :
            /\ Len(pdf_tables[o][index].pdf_probs)
                    = PdfBinNumber(Column(o, index + 2))
            /\ Len(pdf_tables[o][index].pdf_values)
                    = PdfBinNumber(Column(o, index + 2))
            /\ \A m \in 1..Len(comp_table) :
                    PdfDigits(o, index)[m]
                        \in 1..PdfBinNumber(Column(o, index + 2))
            /\ ExactProbabilities(o) =>
                    SumSeq(pdf_tables[o][index].pdf_probs)
                        = SumSeq(Column(o, 2))
            /\ UniqueCount(Column(o, index + 2)) = 1 =>
                    pdf_tables[o][index].pdf_probs = <<SumSeq(Column(o, 2))>>

\* The sum of the terms of the models that are in the bin.
RECURSIVE BinSum(_, _, _)
BinSum(terms, digits, bin) ==
    IF terms = <<>> THEN Num(0)
    ELSE Add(IF Head(digits) = bin THEN Head(terms) ELSE Num(0),
             BinSum(Tail(terms), Tail(digits), bin))

\* Some model of the bin has a probability that is not 0.
HasMass(probs, digits, bin) ==
    \E m \in 1..Len(probs) : digits[m] = bin /\ probs[m] # Num(0)

\* The representative value of a bin: the probability-weighted mean of the
\* values of the bin, or the plain mean of all the values.
Representative(vals, probs, digits, bin) ==
    IF HasMass(probs, digits, bin)
    THEN Div(BinSum(Array([m \in 1..Len(vals) |-> Mul(vals[m], probs[m])]),
                    digits, bin),
             BinSum(probs, digits, bin))
    ELSE Div(BinSum(vals, Array([m \in 1..Len(vals) |-> bin]), bin),
             Num(Len(vals)))

\* Every bin has its representative value.
Represented(vals, probs, digits, pdf_values) ==
    \A bin \in 1..Len(pdf_values) :
        pdf_values[bin] = Representative(vals, probs, digits, bin)

\* C13: in the binned PDF of every aggregated row and variable, the value
\* of a bin is the probability-weighted mean of the values put in that bin
\* when some probability of the bin is not zero, and the unweighted mean of
\* all the values of the variable otherwise, a bin with no value included.
C13_BinRepresentative ==
    save_pdf =>
        \A o \in 1..Len(pdf_tables) : \A index \in 1..Len(Variables) :
            Represented(Column(o, index + 2), Column(o, 2),
                        PdfDigits(o, index), pdf_tables[o][index].pdf_values)

\* Two models whose values of the second variable fall in the bins 1 and 3
\* of two: the first bin has a mass and the value of its model, the second
\* bin is empty and has the mean of the two values.
C13_Witness ==
    /\ save_pdf
    /\ Len(pdf_tables) >= 1
    /\ Len(comp_table) = 2
    /\ PdfDigits(1, 2) = <<1, 3>>
    /\ HasMass(Column(1, 2), PdfDigits(1, 2), 1)
    /\ ~HasMass(Column(1, 2), PdfDigits(1, 2), 2)
    /\ Len(pdf_tables[1][2].pdf_values) = 2
    /\ pdf_tables[1][2].pdf_values[1] = Column(1, 4)[1]
    /\ pdf_tables[1][2].pdf_values[2] = Big(60, 1)
    /\ Column(1, 4) = <<Num(80), Big(120, 1)>>

---------------------------------------------------------------------------
(* Properties of gen_pdf and save_pdf *)

\* The integer nearest to 100 * p.
Hundredths(p) ==
    CHOOSE k \in 0..100 : 2 * Abs(100 * p.n - k * p.d) < p.d

\* The sample gen_pdf pools for the variable of position index.
Pooled(index) ==
    CombinedValues(VariableColumn(index), IntegerWeights(likelihood))

\* How many times the value v is in the sequence s.
Occurrences(s, v) == Cardinality({i \in 1..Len(s) : s[i] = v})

\* The models that have the value v for the variable of position index.
ModelsWith(index, v) ==
    {m \in 1..Len(model_variables) : model_variables[m][index] = v}

\* The values of the variable that have an integer weight other than 0.
WeightedPoints(index) ==
    {model_variables[m][index] :
        m \in {m \in 1..Len(model_variables) : Hundredths(likelihood[m]) # 0}}

\* C14: gen_pdf pools every value round(100 * probability) times, so none
\* for an integer weight of 0; for every variable save_pdf has gone through
\* whose pooled sample has fewer than 2 distinct points, gen_pdf returned
\* None, the variable is reported, has no PDF file, and the call goes on.
C14_DegeneratePoolIsSkipped ==
    fn = "save_pdf" =>
        /\ pc # "aborted"
        /\ \A index \in 1..Len(analysed_variables) : \A v \in KdeValues :
                Occurrences(Pooled(index), v)
                    = IntSum(ModelsWith(index, v),
                             [m \in 1..Len(model_variables) |->
                                Hundredths(likelihood[m])])
        /\ \A index \in 1..(var_index - 1) :
                Cardinality(WeightedPoints(index)) < 2
                    => /\ \E i \in 1..Len(reports) :
                            reports[i] = analysed_variables[index]
                       /\ \A i \in 1..Len(files) :
                            files[i] # analysed_variables[index]
                       /\ index = var_index - 1 => pdf_prob = None

---------------------------------------------------------------------------
(* Properties of adjust_errors and of the purity of the two functions *)

\* The raw error of the filter i is not below the threshold.
RawErrorKept(i) == ~Lt(obs_errors[i], Num(TOLERANCE))

\* An adjusted error is a number that is not negative.
IsAdjusted(x) == x.k \in {"fin", "sqrt"} /\ x.n >= 0

\* C15: for equally long flux and error sequences adjust_errors returns a
\* sequence of the same length, and at every index where the raw error is
\* at least TOLERANCE the adjusted error is at least the raw error.
C15_SameLengthAndNotSmaller ==
    (Called("adjust_errors") /\ Len(obs_fluxes) = Len(obs_errors))
    => /\ ret.status = "return"
       /\ Len(ret.value) = Len(obs_errors)
       /\ \A i \in 1..Len(obs_errors) :
            RawErrorKept(i)
                => /\ IsAdjusted(ret.value[i])
                   /\ ~Lt(SquareOfSigma(ret.value[i]),
                          Mul(obs_errors[i], obs_errors[i]))

\* A flux of 80 with the error 2: the adjusted error is sqrt(68), above 2.
C15_Witness ==
    /\ Called("adjust_errors")
    /\ obs_fluxes = <<Num(80), Num(0)>>
    /\ obs_errors = <<Num(2), Num(3)>>
    /\ ret.status = "return"
    /\ ret.value = <<[k |-> "sqrt", n |-> 68, d |-> 1], Num(3)>>

\* The error of the filter i after the replacement of the low errors.
ScaledError(i) ==
    IF Lt(obs_errors[i], Num(TOLERANCE))
    THEN Fin(DEFAULT_ERROR.n * obs_errors[i].n,
             DEFAULT_ERROR.d * obs_errors[i].d)
    ELSE obs_errors[i]

\* flux * systematic_deviation for the filter i
SystematicTerm(i) ==
    Fin(obs_fluxes[i].n * SYSTEMATIC_DEVIATION.n,
        obs_fluxes[i].d * SYSTEMATIC_DEVIATION.d)

---------------------------------------------------------------------------
(* Properties of the loops of Module.process *)

\* The loop on the models and rows has gone through the pair (m, o).
Evaluated(m, o) ==
    m < model_index \/ (m = model_index /\ o < obs_index)

\* What compute_chi2 returns for the model m and the row o.
FitOf(m, o) ==
    compute_chi2(sed_modules_params[m].fluxes,
                 obs_table[o].flux, obs_table[o].err).value

\* The statistic of position c (from 1) for the model m and the row o:
\* reduced chi-square, probability, normalisation factor, then the analysed
\* variables, times the normalisation factor when mass-proportional.
Statistic(m, o, c, fit) ==
    CASE c = 1 -> fit[1]
      [] c = 2 -> fit[3]
      [] c = 3 -> fit[2]
      [] OTHER ->
            IF analysed_variables[c - 3] \in mass_proportional_info
            THEN Mul(sed_modules_params[m].info[analysed_variables[c - 3]],
                     fit[2])
            ELSE sed_modules_params[m].info[analysed_variables[c - 3]]

\* The statistics of the model m for the row o, given what compute_chi2
\* returns for them.
Statistics(m, o, fit) ==
    Array([c \in 1..(Len(analysed_variables) + 3) |-> Statistic(m, o, c, fit)])

\* The cells of the pair (m, o) hold its statistics.
Written(m, o) == comp_table[m][o] = Statistics(m, o, FitOf(m, o))

\* Every cell of the pair (m, o) holds the sentinel.
Untouched(m, o) ==
    \A c \in 1..Len(comp_table[m][o]) : comp_table[m][o][c] = NaN

\* C18: comp_table is allocated full of NaN, with a cell per model, row and
\* statistic; a step of the double loop writes the cells of one pair that
\* was untouched, with its statistics (reduced chi-square, probability,
\* normalisation factor, analysed variables), and no other cell, so that
\* the pairs the loop has gone through are written and the others hold the
\* sentinel; once the loop is over no pair is left untouched.
C18_TensorWrittenOnce ==
    /\ [](fn = "process" =>
            \A m \in 1..Len(comp_table) :
                /\ Len(comp_table[m]) = Len(obs_table)
                /\ \A o \in 1..Len(comp_table[m]) :
                    /\ Len(comp_table[m][o]) = Len(analysed_variables) + 3
                    /\ Evaluated(m, o) <=> ~Untouched(m, o))
    /\ [][\A m \in 1..Len(comp_table) : \A o \in 1..Len(comp_table[m]) :
            comp_table'[m][o] # comp_table[m][o]
                => /\ Untouched(m, o)
                   /\ m = model_index /\ o = obs_index
                   /\ obs_index' = obs_index + 1
                   /\ comp_table'[m][o] = Statistics(m, o, FitOf(m, o))]_vars

\* Two models and two rows: the loops are over and the twenty cells are
\* written, the mass-proportional variable with its factor of 80.
C18_Witness ==
    /\ fn = "process"
    /\ pc = "aggregate"
    /\ Len(comp_table) = 2
    /\ Len(obs_table) = 2
    /\ \A m \in 1..2 : \A o \in 1..2 : Written(m, o)
    /\ comp_table[1][1][3] = Num(80)
    /\ sed_modules_params[1].info["sfr"] = Num(1)
    /\ comp_table[1][1][4] = Num(80)

\* The reduced chi-square of the model m for the row o.
ReducedChi2(m, o) == comp_table[m][o][1]

\* C19: the best index of every aggregated row is the index of a model with
\* the least reduced chi-square for that row, and the first such model in
\* the order of the grid.
C19_BestIsFirstLeast ==
    fn = "process" =>
        \A o \in 1..Len(best_indices) :
            /\ best_indices[o] \in 1..Len(comp_table)
            /\ \A m \in 1..Len(comp_table) :
                ~Lt(ReducedChi2(m, o), ReducedChi2(best_indices[o], o))
            /\ \A m \in 1..(best_indices[o] - 1) :
                Lt(ReducedChi2(best_indices[o], o), ReducedChi2(m, o))

\* Something has been aggregated: a best index, a (mean, sigma) pair or a
\* PDF.
SomeAggregate ==
    \/ best_indices # <<>>
    \/ pdf_tables # <<>>
    \/ \E v \in DOMAIN results : results[v] # <<>>

\* Every model has been compared with every row.
FullTensor ==
    /\ model_index > Len(sed_modules_params)
    /\ Len(comp_table) = Len(sed_modules_params)
    /\ \A m \in 1..Len(comp_table) :
            /\ Len(comp_table[m]) = Len(obs_table)
            /\ \A o \in 1..Len(obs_table) : ~Untouched(m, o)

\* C20: the aggregation of the observations (best model, weighted
\* statistics, PDF) does not read comp_table before every model has been
\* compared with every observation: the loop on the observations is only
\* entered, and anything only aggregated, with the full tensor.
C20_AggregationAfterEvaluation ==
    fn = "process" =>
        /\ (pc \in {"aggregate", "done"} \/ SomeAggregate) => FullTensor
        /\ pc \in {"start", "models"} => ~SomeAggregate

\* The first row of two has been aggregated over two models.
C20_Witness ==
    /\ fn = "process"
    /\ pc = "aggregate"
    /\ Len(sed_modules_params) = 2
    /\ Len(obs_table) = 2
    /\ Len(best_indices) = 1
    /\ obs_index = 2
    /\ FullTensor

---------------------------------------------------------------------------
(* The errors that the models are compared with *)

\* The error of the row o in the filter f after one call of adjust_errors
\* on the columns of the filter f of the table.
AdjustedOnce(table, o, f) ==
    adjust_errors(FluxColumn(table, f), ErrColumn(table, f)).value[o]

\* C21: the errors of the table are adjusted exactly once per row and
\* filter, in the step that precedes the loop on the models: that step
\* replaces every error by what one call of adjust_errors on its column
\* gives and keeps the fluxes, and no later step changes the table, so that
\* every model is compared with the same errors of a row.
C21_ErrorsAdjustedOnce ==
    [][fn = "process" =>
        /\ (pc = "start" /\ pc' = "models") =>
            /\ Len(obs_table') = Len(obs_table)
            /\ \A o \in 1..Len(obs_table) :
                /\ obs_table'[o].flux = obs_table[o].flux
                /\ \A f \in 1..Len(filter_list) :
                    obs_table'[o].err[f] = AdjustedOnce(obs_table, o, f)
        /\ pc # "start" => obs_table' = obs_table]_vars

\* The second model is being compared with a row whose errors of 6 have
\* become 10 (the systematic term of a flux of 80 is 8), after the first
\* model was compared with that row.
C21_Witness ==
    /\ fn = "process"
    /\ pc = "models"
    /\ model_index = 2
    /\ obs_index = 1
    /\ Len(obs_table) >= 1
    /\ obs_table[1] = [flux |-> <<Num(80), Num(80)>>,
                       err |-> <<Num(10), Num(10)>>]
    /\ ~Untouched(1, 1)

---------------------------------------------------------------------------
(* The models taken in any order *)

\* The tensor that the loops of process leave when they take the models and
\* the rows in sequence: for every pair the statistics of that pair.
SequentialTensor ==
    Array([m \in 1..Len(sed_modules_params) |->
            Array([o \in 1..Len(obs_table) |->
                    Statistics(m, o, FitOf(m, o))])])

\* The models whose cells differ between two tensors.
ModelsChanged(before, after) ==
    {m \in 1..Len(before) : after[m] # before[m]}

\* The rows of the model m whose cells differ between two tensors.
RowsChanged(before, after, m) ==
    {o \in 1..Len(before[m]) : after[m][o] # before[m][o]}

\* C22: when the models are taken in any order and their passes interleave,
\* a pass changes cells of one model only, the cells of one row, and gives
\* them the statistics of that model and that row, which are computed from
\* the model and the adjusted table alone; the tensor that is saved is the
\* tensor of the sequential order.
C22_OrderIndependent ==
    /\ []((fn = "process" /\ pc = "aggregate")
            => comp_table = SequentialTensor)
    /\ [][(fn = "process" /\ pc = "models" /\ comp_table' # comp_table) =>
            /\ Cardinality(ModelsChanged(comp_table, comp_table')) = 1
            /\ \A m \in ModelsChanged(comp_table, comp_table') :
                /\ Cardinality(RowsChanged(comp_table, comp_table', m)) = 1
                /\ \A o \in RowsChanged(comp_table, comp_table', m) :
                    comp_table'[m][o] = Statistics(m, o, FitOf(m, o))]_vars

\* Two different models and two rows: the second model has been compared
\* with both rows, with different results, before the first model has been
\* compared with its first row.
C22_Witness ==
    /\ fn = "process"
    /\ pc = "models"
    /\ Len(sed_modules_params) = 2
    /\ sed_modules_params[1] # sed_modules_params[2]
    /\ Len(obs_table) = 2
    /\ ~Untouched(2, 1)
    /\ ~Untouched(2, 2)
    /\ Untouched(1, 1)
    /\ comp_table[2][1] # comp_table[2][2]

---------------------------------------------------------------------------
(* Properties of Counter *)

\* The flushes that the process p has completed: one per freq_inc calls of
\* inc(), less the one it has started and not yet written.
FlushesDone(p) ==
    (proc_counter[p] \div freq_inc)
        - (IF at[p] \in {"lock", "load", "store"} THEN 1 ELSE 0)

\* The flushes completed by all the processes.
RECURSIVE FlushesUpTo(_)
FlushesUpTo(p) == IF p = 0 THEN 0 ELSE FlushesDone(p) + FlushesUpTo(p - 1)

\* C23: in every interleaving of the calls of inc(), the shared counter
\* never decreases and loses no update: a process is between taking the
\* lock and releasing it only when its own count is a multiple of freq_inc,
\* it reads and writes the shared value only while it holds the lock, a
\* write adds exactly freq_inc, and the shared value is always freq_inc
\* times the number of completed flushes.
C23_NoLostUpdate ==
    /\ [](fn = "Counter.inc" =>
            /\ global_counter = freq_inc * FlushesUpTo(MaxProcs)
            /\ \A p \in Procs :
                /\ at[p] \in {"lock", "load", "store", "read"}
                    => proc_counter[p] % freq_inc = 0
                /\ at[p] \in {"load", "store", "read"} => lock_owner = p)
    /\ [][fn = "Counter.inc" =>
            /\ global_counter' >= global_counter
            /\ global_counter' # global_counter =>
                /\ global_counter' = global_counter + freq_inc
                /\ \E p \in Procs :
                    /\ at[p] = "store"
                    /\ at'[p] = "read"
                    /\ lock_owner = p]_vars

\* With freq_inc = 2, each process has made two calls of inc(): the first
\* one did not touch the shared counter at its first call, has flushed at
\* its second and read 2; the second one holds the lock, has read the 2 and
\* is about to write 4.
C23_Witness ==
    /\ fn = "Counter.inc"
    /\ freq_inc = 2
    /\ proc_counter[1] = 2
    /\ proc_counter[2] = 2
    /\ at[1] = "report"
    /\ n_local[1] = 2
    /\ at[2] = "store"
    /\ lock_owner = 2
    /\ loaded[2] = 2
    /\ global_counter = 2

\* Every process has made all its calls of inc().
AllFinished ==
    \A p \in Procs : at[p] = "idle" /\ calls[p] = 0

\* The calls of inc() made so far by all the processes.
RECURSIVE CallsUpTo(_)
CallsUpTo(p) == IF p = 0 THEN 0 ELSE proc_counter[p] + CallsUpTo(p - 1)

\* C29: once the processes have together made nmodels calls of inc() and
\* have all finished, the shared counter is nmodels, whatever freq_inc and
\* whatever the split of the calls among the processes.
C29_AllCallsCounted ==
    (fn = "Counter.inc" /\ AllFinished /\ CallsUpTo(MaxProcs) = nmodels)
        => global_counter = nmodels

\* The positions of printed that hold the value k.
ReportsOf(k) == {i \in 1..Len(printed) : printed[i] = k}

\* C30: in every interleaving of the calls of inc(), the values passed to
\* pprint are in strictly increasing order, every one is a multiple of
\* freq_print that the shared counter has reached, none is passed twice,
\* and once every process is out of inc() every multiple of freq_print up
\* to the shared counter has been passed once.
C30_ReportsOnceInOrder ==
    fn = "Counter.inc" =>
        /\ \A i \in 1..Len(printed) :
            /\ printed[i] % freq_print = 0
            /\ printed[i] \in 1..global_counter
            /\ Cardinality(ReportsOf(printed[i])) = 1
        /\ \A i \in 1..(Len(printed) - 1) : printed[i] < printed[i + 1]
        /\ (\A p \in Procs : at[p] = "idle") =>
            \A k \in 1..global_counter :
                k % freq_print = 0 => Cardinality(ReportsOf(k)) = 1

---------------------------------------------------------------------------
(* compute_chi2 on arguments of equal lengths *)

\* C24: on non-empty arguments of equal lengths, whatever the fluxes and
\* the errors (at the threshold, zero or any other value), compute_chi2
\* returns a triple and raises nothing.
C24_TotalOnEqualLengths ==
    (Called("compute_chi2") /\ EqualLengths /\ Filters # {})
        => /\ ret.status = "return"
           /\ Len(ret.value) = 3

\* compute_chi2 goes to the fit: the test of the unfittable observation is
\* evaluated, on a flux over the threshold, and is false.
TakesFitPath ==
    /\ EqualLengths
    /\ \E i \in Filters : ~FluxUnder(i)
    /\ \E i \in Filters : FluxOver(i)
    /\ \A i \in Filters : FluxOver(i) => ~ErrorUnder(i)

\* C25: when compute_chi2 goes to the fit, at least one filter has an error
\* over the threshold, so that the fit is made on one filter or more: the
\* number of degrees of freedom is not negative and the call returns.
C25_FitHasAFilter ==
    (Called("compute_chi2") /\ TakesFitPath)
        => /\ Cardinality(Constrained) - 1 >= 0
           /\ ret.status = "return"

---------------------------------------------------------------------------
(* The best model of a row *)

\* The probability of the model m for the row o.
Probability(m, o) == comp_table[m][o][2]

\* The probability a is greater than the probability b: exp(-chi2/2) grows
\* as chi2 decreases, and lies strictly between the probabilities 0 and 1.
GreaterProbability(a, b) ==
    CASE a.k = "exp" /\ b.k = "exp" -> a.n * b.d < b.n * a.d
      [] a.k = "exp" /\ b.k = "fin" -> b.n = 0
      [] a.k = "fin" /\ b.k = "exp" -> a.n > 0
      [] a.k = "fin" /\ b.k = "fin" -> a.n * b.d > b.n * a.d
      [] OTHER -> FALSE

\* C27: for every aggregated row, no model of the grid has a greater
\* probability (a smaller chi-square before the cut at 99) than the model
\* that is selected as the best one.
C27_BestHasLeastRawChi2 ==
    fn = "process" =>
        \A o \in 1..Len(best_indices) :
            /\ best_indices[o] \in 1..Len(comp_table)
            /\ \A m \in 1..Len(comp_table) :
                ~GreaterProbability(Probability(m, o),
                                    Probability(best_indices[o], o))

---------------------------------------------------------------------------
(* The bins of the PDF *)

\* A value that can be compared with a boundary.
Comparable(x) == x.k \in {"fin", "big"}

\* C28: in the binned PDF of every aggregated row and variable, with as
\* many bins as the least of pdf_max_bin_number and the number of distinct
\* values, every bin holds the value of at least one model, and the value
\* that represents a bin is between the start and the end of that bin.
C28_BinsFilledAndRepresented ==
    (fn = "process" /\ save_pdf) =>
        \A o \in 1..Len(pdf_tables) : \A index \in 1..Len(Variables) :
            \A bin \in 1..Len(pdf_tables[o][index].pdf_values) :
                /\ \E m \in 1..Len(comp_table) : PdfDigits(o, index)[m] = bin
                /\ Comparable(pdf_tables[o][index].pdf_values[bin]) =>
                    /\ Le(pdf_tables[o][index].boundaries[bin],
                          pdf_tables[o][index].pdf_values[bin])
                    /\ Le(pdf_tables[o][index].pdf_values[bin],
                          pdf_tables[o][index].boundaries[bin + 1])

---------------------------------------------------------------------------
(* The observation that cannot be fitted *)

\* The cells of the pair (m, o) hold the reduced chi-square 99, the factor 1
\* and the probability 0.
SentinelCells(m, o) ==
    /\ comp_table[m][o][1] = Num(99)
    /\ comp_table[m][o][2] = Num(0)
    /\ comp_table[m][o][3] = Num(1)

\* The row o has no flux at or over the threshold, or has a flux over the
\* threshold with an error under it.
RowUnfittable(o) ==
    \/ \A f \in 1..Len(filter_list) :
            Lt(obs_table[o].flux[f], Num(TOLERANCE))
    \/ \E f \in 1..Len(filter_list) :
            /\ Gt(obs_table[o].flux[f], Num(TOLERANCE))
            /\ Lt(obs_table[o].err[f], Num(TOLERANCE))

\* The filters of the row o that have an error over the threshold.
RowConstrained(o) ==
    {f \in 1..Len(filter_list) : Gt(obs_table[o].err[f], Num(TOLERANCE))}

\* The least-squares factor of the model m for the row o.
RowNorm(m, o) ==
    Div(SumOver(RowConstrained(o),
                [f \in 1..Len(filter_list) |->
                    Mul(obs_table[o].flux[f],
                        sed_modules_params[m].fluxes[f])]),
        SumOver(RowConstrained(o),
                [f \in 1..Len(filter_list) |->
                    Square(sed_modules_params[m].fluxes[f])]))

\* The chi-square of the model m for the row o, given the factor.
RowChi2(m, o, norm) ==
    SumOver(RowConstrained(o),
            [f \in 1..Len(filter_list) |->
                Square(Div(Sub(obs_table[o].flux[f],
                               Mul(norm, sed_modules_params[m].fluxes[f])),
                           obs_table[o].err[f]))])

\* C26 as stated: two models compared with the same row both get the
\* triple (99, 1, 0) or neither does.
C26_Original ==
    fn = "process" =>
        \A o \in 1..Len(obs_table) : \A m1, m2 \in 1..Len(comp_table) :
            (~Untouched(m1, o) /\ ~Untouched(m2, o))
                => (SentinelCells(m1, o) <=> SentinelCells(m2, o))

\* C26 (amended): a row without a flux at or over TOLERANCE, or with a
\* flux over TOLERANCE whose error is under TOLERANCE, gets the triple
\* (99, 1, 0), so the probability 0, from every model it is compared with;
\* for any other row a model gets that triple only from its own fit, on
\* two filters or more, with a factor of exactly 1 and a chi-square over
\* 1490, where the reduced chi-square is cut to 99 and exp(-chi2/2) is 0.
C26_UnfittableForEveryModel ==
    fn = "process" =>
        \A o \in 1..Len(obs_table) : \A m \in 1..Len(comp_table) :
            ~Untouched(m, o) =>
                /\ RowUnfittable(o) => SentinelCells(m, o)
                /\ (~RowUnfittable(o) /\ SentinelCells(m, o)) =>
                    /\ Cardinality(RowConstrained(o)) >= 2
                    /\ RowNorm(m, o) = Num(1)
                    /\ Lt(Num(1490), RowChi2(m, o, Num(1)))

\* Two different models, one of them without flux, have been compared with
\* a row whose first flux is over the threshold with an error under it, and
\* with a row that is fitted: the first row has the probability 0 for both.
C26_Witness ==
    /\ fn = "process"
    /\ pc = "models"
    /\ Len(comp_table) = 2
    /\ Len(obs_table) = 2
    /\ sed_modules_params[1] # sed_modules_params[2]
    /\ sed_modules_params[2] = DarkSed
    /\ model_index = 3
    /\ obs_table[1].flux = <<Num(2), Num(80)>>
    /\ RowUnfittable(1)
    /\ ~RowUnfittable(2)
    /\ SentinelCells(1, 1)
    /\ SentinelCells(2, 1)
    /\ ~SentinelCells(1, 2)

============================================================================
